---- MODULE Spec2Model ----
(***************************************************************************)
(* Verification model of tap-salesforce's extraction engine:               *)
(*   - Salesforce._make_request / check_rest_quota_usage (quota governor)  *)
(*   - Bulk.query / check_bulk_quota_usage / _bulk_query and its fallback  *)
(*   - Bulk._close_job                                                     *)
(*   - resume_syncing_bulk_query                                           *)
(*   - concurrent callers of _make_request (run_concurrently)              *)
(* Several specifications share one set of variables; a specification      *)
(* leaves the variables of the other parts at their initial values.        *)
(***************************************************************************)
EXTENDS Integers, Sequences, FiniteSets, TLC

(***************************************************************************)
(* Program constants                                                       *)
(***************************************************************************)
DEFAULT_CHUNK_SIZE == 250000
FALLBACK_CHUNK_SIZE == 2000
\* Salesforce.__init__ defaults (percentages)
quota_percent_per_run == 25
quota_percent_total == 80

(***************************************************************************)
(* Bounds of the model                                                     *)
(***************************************************************************)
\* the remote's allotted daily REST calls, as reported in Sforce-Limit-Info
Allotted == 5
\* the remote's DailyBulkApiRequests Max
BulkMax == 3
\* targets synced in one run (one Bulk.query each)
MaxStreams == 2
\* quota-counted responses the remote gives in one run
MaxCounted == 4
\* partitions of a chunked job
NBatches == 2
\* status polls that may find a partition still Queued/InProgress
MaxPolls == 1
\* job ids and calls of an arbitrary sequence of _close_job calls
MaxJobs == 2
MaxCloseCalls == 3
\* records of one partition's result, and runs that may die while resuming a job
RecordsPerBatch == 2
MaxInterrupts == 2
\* worker threads of run_concurrently (the pool has 5)
NWorkers == 3

VARIABLES
    pc,                       \* position of the sequential run
    stream,                   \* index of the target being synced
    attempt,                  \* 1: default chunk size, 2: use_fall_back_chunk_size
    exc,                      \* exception in flight / that ended the run
    rest_requests_attempted,  \* Salesforce.rest_requests_attempted
    jobs_completed,           \* Salesforce.jobs_completed
    closed_jobs,              \* Bulk.closed_jobs (a list)
    created_jobs,             \* remote jobs created by this Bulk instance: chunk size (0: no chunking header)
    close_sent,               \* remote: job ids for which a close request was issued, in order
    job_id,                   \* job of the chunked attempt in progress (0: none)
    polls,                    \* polls of the current job that found work in progress
    completed,                \* batch_status['completed'] of the current attempt
    bidx,                     \* position in completed of the partition being processed
    downloaded,               \* history: <<job, partition>> results downloaded by this Bulk instance
    bookmark,                 \* in-memory state: JobID / BatchIDs of the target
    persisted,                \* last state handed to singer.write_state
    requestAfterQuota,        \* history: a request was issued after QuotaExceeded was raised
    quotaRaised,              \* history: QuotaExceeded has been raised in this run
    allParsed,                \* history: every quota header seen so far was parseable
    attempts,                 \* history: chunk sizes of the chunked attempts of this _bulk_query
    failedAttempts,           \* history: chunked attempts of this _bulk_query that failed
    last,                     \* history: the last response and what the call did
    close_calls,              \* history: the job ids _close_job was called with, in order
    iter_ids,                 \* resume: the copy batch_ids[:] being iterated
    rec_pos,                  \* resume: records of the current partition emitted by this fetch
    emitted,                  \* resume history: <<partition, record>> emitted, over all runs
    fetched,                  \* resume history: partitions whose result this run has requested
    run_start,                \* resume history: the persisted BatchIDs this run started from
    initial,                  \* resume history: the persisted BatchIDs of the first run
    interrupts,               \* resume history: runs that died so far
    empty_parts,              \* resume: the partitions whose result holds no row
    got,                      \* resume history: partitions whose result was downloaded, over all runs
    wpc,                      \* workers: position of each worker thread in _make_request
    wtmp,                     \* workers: the counter value each thread has loaded
    wcounted                  \* workers history: the worker's response carried a quota header

VARIABLES
    api_type,                 \* sync: Salesforce.api_type of the run
    start_time,               \* sync: singer_utils.now() at the start of the target's sync
    filters_tried,            \* sync: Salesforce.filters_tried (a list)
    sf_pk_chunking,           \* sync: Salesforce.pk_chunking
    position,                 \* sync: the target's bookmarks in the in-memory state
    flushed,                  \* sync: the target's bookmarks in the last state written
    output,                   \* sync history: records written to the output, over all runs
    built,                    \* sync history: the last query _build_query_string returned
    query,                    \* rest: the query of the current _query_recur call
    start_date_str,           \* rest: start_date_str of the current call
    end_date,                 \* rest: end_date of the current call
    retries,                  \* rest: retries of the current call
    todo,                     \* rest: records of the query's result not yet on a page
    page,                     \* rest: records of the page received, not yet yielded
    timeouts,                 \* rest history: QUERY_TIMEOUT responses handled
    endpoint1h,               \* rest history: the remote timed out exactly on windows wider than an hour
    first_start,              \* rest history: the start position Rest.query was called with
    current_bookmark,         \* bulk: chunked_bookmark / current_bookmark of the running sync
    job_query,                \* bulk: the query of the job's batch
    batch_iter,               \* bulk: the partitions still to iterate, in order
    runs,                     \* bulk history: processes started so far
    stale                     \* bulk history: this run found its stored job gone

VARIABLES
    query_override,           \* call: the query_override Salesforce.query is called with
    engine,                   \* call: the engine Salesforce.query handed the call to
    request,                  \* call: the request _make_request is sending
    tries,                    \* call: attempts the backoff decorator has made for this request
    remote,                   \* poll: the state of each partition at the remote
    snapshot,                 \* poll: the batch list the last _get_batches / _get_batch returned
    poll_failed,              \* poll history: jobs whose polling ended with a Failed partition
    futures,                  \* chunks: partitions whose process_batch generator a worker has created
    delivered,                \* chunks history: <<partition, result, line>> in the order they reached the caller
    results,                  \* chunks: the remote's result files of each partition, each a list of CSV lines
    result_idx,               \* chunks: position in the partition's result list of the file being read
    msgs                      \* sync history: the messages the last writing step wrote, in order

VARIABLES
    raw_current,              \* run: current_stream of the state file the process was started with
    state_current,            \* run: state["current_stream"] (0: no such entry, or None)
    written_current,          \* run: current_stream of the last state written
    starting_stream,          \* run: starting_stream of do_sync
    selected,                 \* run: the selected targets of the catalog
    synced,                   \* run history: the targets this process has synced or begun to sync
    cause,                    \* run history: the exception raised inside the target's sync
    exit_status               \* run: how main ended

mainVars == <<pc, stream, attempt, exc, jobs_completed, created_jobs, job_id, polls,
              completed, bidx, downloaded, bookmark, persisted, quotaRaised, allParsed, attempts,
              failedAttempts>>
reqVars == <<rest_requests_attempted, requestAfterQuota, last>>
closeVars == <<closed_jobs, close_sent, close_calls>>
resumeVars == <<iter_ids, rec_pos, emitted, fetched, run_start, initial, interrupts,
               empty_parts, got>>
workerVars == <<wpc, wtmp, wcounted>>
syncVars == <<api_type, start_time, filters_tried, sf_pk_chunking, position, flushed, output,
             built, query, start_date_str, end_date, retries, todo, page, timeouts,
             endpoint1h, first_start, current_bookmark, job_query, batch_iter, runs, stale>>
callVars == <<query_override, engine, request, tries>>
pollVars == <<remote, snapshot, poll_failed>>
chunkVars == <<futures, delivered, results, result_idx>>
runVars == <<raw_current, state_current, written_current, starting_stream, selected, synced,
            cause, exit_status>>
lateVars == <<callVars, pollVars, chunkVars, runVars, msgs>>
vars == <<mainVars, reqVars, closeVars, resumeVars, workerVars, syncVars, lateVars>>

(***************************************************************************)
(* Remote responses                                                        *)
(***************************************************************************)
NoHeader == [kind |-> "none", used |-> 0]
Headers == {NoHeader, [kind |-> "malformed", used |-> 0]}
             \cup {[kind |-> "usage", used |-> u] : u \in 0..Allotted}
\* an error status makes raise_for_status raise before any header is looked at
AllResponses == {[status |-> "error", hdr |-> NoHeader]}
                  \cup {[status |-> "ok", hdr |-> h] : h \in Headers}

NoLast == [hdr |-> NoHeader, attempted |-> 0, jobs |-> 0, remaining |-> -1, raised |-> "none"]

(***************************************************************************)
(* Quota governor                                                          *)
(***************************************************************************)
\* int((quota_percent_per_run * max) / 100)
max_requests_for_run(max) == (quota_percent_per_run * max) \div 100

\* mutant: the total ceiling compared with >= instead of >
check_rest_quota_usage_ge(hdr, attempted) ==
    IF hdr.kind # "usage" THEN "none"
    ELSE IF hdr.used * 100 >= quota_percent_total * Allotted THEN "QuotaExceeded"
    ELSE IF attempted > (quota_percent_per_run * Allotted) \div 100 THEN "QuotaExceeded"
    ELSE "none"

\* (used / allotted) * 100 > quota_percent_total, on exact numbers
check_rest_quota_usage(hdr, attempted) ==
    IF hdr.kind # "usage" THEN "none"
    ELSE IF hdr.used * 100 > quota_percent_total * Allotted THEN "QuotaExceeded"
    ELSE IF attempted > max_requests_for_run(Allotted) THEN "QuotaExceeded"
    ELSE "none"

\* (1 - remaining / max) * 100 > quota_percent_total, on exact numbers
BulkQuotaCheck(remaining, jobs) ==
    IF (BulkMax - remaining) * 100 > quota_percent_total * BulkMax THEN "QuotaExceeded"
    ELSE IF jobs > max_requests_for_run(BulkMax) THEN "QuotaExceeded"
    ELSE "none"

\* mutant: the quota header of a response is counted whatever its status
CountedAnyStatus(resp) == resp.hdr.kind # "none"

\* the counter after one _make_request that received resp
Counted(resp) == resp.status = "ok" /\ resp.hdr.kind # "none"
AttemptedAfter(resp) ==
    IF Counted(resp) THEN rest_requests_attempted + 1 ELSE rest_requests_attempted

\* the responses the remote may give to the next request
Responses ==
    {resp \in AllResponses : Counted(resp) => rest_requests_attempted < MaxCounted}

\* what one _make_request that received resp raises ("none": it returns resp)
Raised(resp) ==
    IF resp.status = "error" THEN "HTTPError"
    ELSE IF Counted(resp) THEN check_rest_quota_usage(resp.hdr, AttemptedAfter(resp))
    ELSE "none"

\* Salesforce._make_request: the accounting of one call
_make_request(resp) ==
    /\ requestAfterQuota' = (requestAfterQuota \/ quotaRaised)
    /\ rest_requests_attempted' = AttemptedAfter(resp)
    /\ last' = [hdr |-> resp.hdr, attempted |-> AttemptedAfter(resp),
                jobs |-> jobs_completed, remaining |-> -1, raised |-> Raised(resp)]

(***************************************************************************)
(* Bulk: job creation, close, and the chunked attempts                     *)
(***************************************************************************)
\* mutant: the fallback flag is ignored
ChunkSizeAlwaysDefault(pk_chunking, use_fall_back_chunk_size) ==
    IF ~pk_chunking THEN 0 ELSE DEFAULT_CHUNK_SIZE

\* the chunkSize of the Sforce-Enable-PKChunking header; 0 when pk_chunking is False
ChunkSize(pk_chunking, use_fall_back_chunk_size) ==
    IF ~pk_chunking THEN 0
    ELSE IF ~use_fall_back_chunk_size THEN DEFAULT_CHUNK_SIZE ELSE FALLBACK_CHUNK_SIZE

InList(x, s) == \E i \in 1..Len(s) : s[i] = x

\* mutant: drops the last element, whatever it is
RemoveLast(s, x) == SubSeq(s, 1, Len(s) - 1)

\* list.remove(x): drops the first occurrence
RemoveFirst(s, x) ==
    LET i == CHOOSE k \in 1..Len(s) : s[k] = x /\ \A m \in 1..(k-1) : s[m] # x
    IN  SubSeq(s, 1, i-1) \o SubSeq(s, i+1, Len(s))

\* an exception raised inside try_bulking_with_pk_chunking reaches an except clause of _bulk_query
RaiseInAttempt(e) ==
    /\ exc' = e
    /\ pc' = "except"
    /\ quotaRaised' = (quotaRaised \/ e = "QuotaExceeded")
    /\ failedAttempts' = failedAttempts \cup {attempt}

NoteHeader(resp) == allParsed' = (allParsed /\ resp.hdr.kind # "malformed")

\* Bulk.query, first statement: check_bulk_quota_usage (a limits call, then the bulk numbers)
CheckBulkQuota ==
    /\ pc = "query"
    /\ \E resp \in Responses, remaining \in 0..BulkMax :
         LET r == Raised(resp)
             b == IF r # "none" THEN r ELSE BulkQuotaCheck(remaining, jobs_completed)
         IN  /\ requestAfterQuota' = (requestAfterQuota \/ quotaRaised)
             /\ rest_requests_attempted' = AttemptedAfter(resp)
             /\ last' = [hdr |-> resp.hdr, attempted |-> AttemptedAfter(resp),
                         jobs |-> jobs_completed,
                         remaining |-> IF r = "none" THEN remaining ELSE -1,
                         raised |-> b]
             /\ NoteHeader(resp)
             /\ quotaRaised' = (quotaRaised \/ b = "QuotaExceeded")
             /\ IF b = "none"
                  THEN /\ pc' = "create_job"
                       /\ exc' = "none"
                  ELSE /\ pc' = "failed"
                       /\ exc' = b
    /\ UNCHANGED <<resumeVars, workerVars, syncVars, lateVars, stream, attempt, jobs_completed, created_jobs, job_id, polls, completed,
                   bidx, downloaded, bookmark, persisted, attempts, failedAttempts, closeVars>>

\* _bulk_query_with_pk_chunking: _create_job(catalog_entry, True, use_fall_back_chunk_size)
CreateJob ==
    /\ pc = "create_job"
    /\ attempts' = Append(attempts, ChunkSize(TRUE, attempt = 2))
    /\ \E resp \in Responses :
         /\ _make_request(resp)
         /\ NoteHeader(resp)
         /\ IF Raised(resp) = "none"
              THEN /\ created_jobs' = Append(created_jobs, ChunkSize(TRUE, attempt = 2))
                   /\ job_id' = Len(created_jobs) + 1
                   /\ pc' = "add_batch"
                   /\ UNCHANGED <<exc, quotaRaised, failedAttempts>>
              ELSE /\ RaiseInAttempt(Raised(resp))
                   /\ UNCHANGED <<created_jobs, job_id>>
    /\ polls' = 0
    /\ UNCHANGED <<resumeVars, workerVars, syncVars, lateVars, stream, attempt, jobs_completed, completed, bidx, downloaded, bookmark,
                   persisted, closeVars>>

\* _add_batch(catalog_entry, job_id, start_date, False)
AddBatch ==
    /\ pc = "add_batch"
    /\ \E resp \in Responses :
         /\ _make_request(resp)
         /\ NoteHeader(resp)
         /\ IF Raised(resp) = "none"
              THEN /\ pc' = "poll"
                   /\ UNCHANGED <<exc, quotaRaised, failedAttempts>>
              ELSE RaiseInAttempt(Raised(resp))
    /\ UNCHANGED <<resumeVars, workerVars, syncVars, lateVars, stream, attempt, jobs_completed, created_jobs, job_id, polls, completed,
                   bidx, downloaded, bookmark, persisted, attempts, closeVars>>

\* the ids of a set of partitions as the list the remote returns them in (ascending)
RECURSIVE SetToSeq(_)
SetToSeq(S) ==
    IF S = {} THEN <<>>
    ELSE LET m == CHOOSE x \in S : \A y \in S : x <= y
         IN  <<m>> \o SetToSeq(S \ {m})

\* the states of a batch that the polling functions tell apart
BatchStates == {"Queued", "InProgress", "Completed", "Failed", "Not Processed"}
NoSnapshot == <<>>

\* mutant: only Queued partitions keep the polling going
StillQueued(snap) == \E b \in DOMAIN snap : snap[b] = "Queued"

\* mutant: every snapshot keeps the polling going
NeverSettled(snap) == TRUE

\* _poll_on_pk_chunked_batch_status line 256: queued_batches or in_progress_batches
StillRunning(snap) == \E b \in DOMAIN snap : snap[b] \in {"Queued", "InProgress"}

\* mutant: partitions that were not processed count as completed
SummaryOfSettled(snap) ==
    [completed |-> SetToSeq({b \in DOMAIN snap : snap[b] \in {"Completed", "Not Processed"}}),
     failed |-> SetToSeq({b \in DOMAIN snap : snap[b] = "Failed"})]

\* lines 257-261: the summary returned for a snapshot
Summary(snap) ==
    [completed |-> SetToSeq({b \in DOMAIN snap : snap[b] = "Completed"}),
     failed |-> SetToSeq({b \in DOMAIN snap : snap[b] = "Failed"})]

\* mutant: a summary with failed partitions is returned like any other
FailedIgnored(summary) == FALSE

\* _bulk_query_with_pk_chunking line 194: if batch_status['failed']
HasFailed(summary) == summary.failed # <<>>

\* _poll_on_pk_chunked_batch_status: one _get_batches call and the test of its snapshot;
\* once it returns, _bulk_query_with_pk_chunking lines 192-195
Poll ==
    /\ pc = "poll"
    /\ \E resp \in Responses, snap \in [1..NBatches -> BatchStates] :
         /\ _make_request(resp)
         /\ NoteHeader(resp)
         /\ IF Raised(resp) # "none"
              THEN /\ RaiseInAttempt(Raised(resp))
                   /\ UNCHANGED <<polls, completed, pollVars>>
              ELSE /\ remote' = snap
                   /\ snapshot' = snap
                   /\ IF StillRunning(snap)
                        THEN \* sleep, poll again
                             /\ polls < MaxPolls
                             /\ polls' = polls + 1
                             /\ UNCHANGED <<pc, exc, quotaRaised, failedAttempts, completed,
                                            poll_failed>>
                        ELSE /\ completed' = Summary(snap).completed
                             /\ poll_failed' = IF \E b \in DOMAIN snap : snap[b] = "Failed"
                                                 THEN poll_failed \cup {job_id}
                                                 ELSE poll_failed
                             /\ UNCHANGED polls
                             /\ IF HasFailed(Summary(snap))
                                  THEN RaiseInAttempt("TapSalesforceException")
                                  ELSE /\ pc' = "close_job"
                                       /\ UNCHANGED <<exc, quotaRaised, failedAttempts>>
    /\ UNCHANGED <<resumeVars, workerVars, syncVars, callVars, chunkVars, runVars, msgs, stream, attempt,
                   jobs_completed, created_jobs, job_id, bidx, downloaded,
                   bookmark, persisted, attempts, closeVars>>

\* mutant: no test of closed_jobs before the request
_close_job_unchecked(j, resp) ==
    /\ close_calls' = Append(close_calls, j)
    /\ closed_jobs' = Append(closed_jobs, j)
    /\ close_sent' = Append(close_sent, j)
    /\ requestAfterQuota' = (requestAfterQuota \/ quotaRaised)
    /\ rest_requests_attempted' = AttemptedAfter(resp)
    /\ last' = [hdr |-> resp.hdr, attempted |-> AttemptedAfter(resp),
                jobs |-> jobs_completed, remaining |-> -1, raised |-> Raised(resp)]

\* mutant: the job is noted as closed, no request is sent
_close_job_not_sent(j, resp) ==
    /\ close_calls' = Append(close_calls, j)
    /\ closed_jobs' = Append(closed_jobs, j)
    /\ UNCHANGED <<close_sent, reqVars>>

\* Bulk._close_job(job_id), with resp the answer to the close request if one is sent
_close_job(j, resp) ==
    /\ close_calls' = Append(close_calls, j)
    /\ IF InList(j, closed_jobs)
         THEN UNCHANGED <<closed_jobs, close_sent, reqVars>>
         ELSE /\ closed_jobs' = Append(closed_jobs, j)
              /\ close_sent' = Append(close_sent, j)
              /\ _make_request(resp)

\* what _close_job(j) raises
CloseRaised(j, resp) == IF InList(j, closed_jobs) THEN "none" ELSE Raised(resp)

NoBookmark == [JobID |-> 0, BatchIDs |-> <<>>]

\* _bulk_query_with_pk_chunking closes the job once no partition failed; then
\* try_bulking_with_pk_chunking writes JobID and BatchIDs to the state
CloseChunkedJob ==
    /\ pc = "close_job"
    /\ \E resp \in Responses :
         /\ _close_job(job_id, resp)
         /\ NoteHeader(resp)
         /\ IF CloseRaised(job_id, resp) = "none"
              THEN /\ bookmark' = [JobID |-> job_id, BatchIDs |-> completed]
                   /\ bidx' = 1
                   /\ pc' = "process"
                   /\ UNCHANGED <<exc, quotaRaised, failedAttempts>>
              ELSE /\ RaiseInAttempt(CloseRaised(job_id, resp))
                   /\ UNCHANGED <<bookmark, bidx>>
    /\ UNCHANGED <<resumeVars, workerVars, syncVars, lateVars, stream, attempt, jobs_completed, created_jobs, job_id, polls, completed,
                   downloaded, persisted, attempts>>

\* get_batch_results: the request for the partition's result list
GetResultList ==
    /\ pc = "process"
    /\ bidx <= Len(completed)
    /\ \E resp \in Responses :
         /\ _make_request(resp)
         /\ NoteHeader(resp)
         /\ IF Raised(resp) = "none"
              THEN /\ pc' = "result"
                   /\ UNCHANGED <<exc, quotaRaised, failedAttempts>>
              ELSE RaiseInAttempt(Raised(resp))
    /\ UNCHANGED <<resumeVars, workerVars, syncVars, lateVars, stream, attempt, jobs_completed, created_jobs, job_id, polls, completed,
                   bidx, downloaded, bookmark, persisted, attempts, closeVars>>

\* get_batch_results: the request for the result, its records yielded; then process_batch
\* removes the partition from BatchIDs and writes the state
GetResult ==
    /\ pc = "result"
    /\ \E resp \in Responses :
         /\ _make_request(resp)
         /\ NoteHeader(resp)
         /\ IF Raised(resp) = "none"
              THEN /\ downloaded' = Append(downloaded, <<job_id, completed[bidx]>>)
                   /\ bookmark' = [bookmark EXCEPT !.BatchIDs = RemoveFirst(@, completed[bidx])]
                   /\ persisted' = bookmark'
                   /\ bidx' = bidx + 1
                   /\ pc' = "process"
                   /\ UNCHANGED <<exc, quotaRaised, failedAttempts>>
              ELSE /\ RaiseInAttempt(Raised(resp))
                   /\ UNCHANGED <<downloaded, bookmark, persisted, bidx>>
    /\ UNCHANGED <<resumeVars, workerVars, syncVars, lateVars, stream, attempt, jobs_completed, created_jobs, job_id, polls, completed,
                   attempts, closeVars>>

\* _bulk_query, line 143: the first attempt's exception is caught, whatever it is, and
\* try_bulking_with_pk_chunking is called again with use_fall_back_chunk_size
FallbackChunked ==
    /\ pc = "except"
    /\ attempt = 1
    /\ attempt' = 2
    /\ exc' = "none"
    /\ pc' = "create_job"
    /\ UNCHANGED <<resumeVars, workerVars, syncVars, lateVars, stream, jobs_completed, created_jobs, job_id, polls, completed, bidx,
                   downloaded, bookmark, persisted, quotaRaised, allParsed, attempts,
                   failedAttempts, reqVars, closeVars>>

\* _bulk_query, lines 146-147: the second attempt's exception is caught, and the handler
\* reads its local job_id, which is bound only at line 157: UnboundLocalError leaves
\* _bulk_query, Bulk.query and the run
InnerExcept ==
    /\ pc = "except"
    /\ attempt = 2
    /\ exc' = "UnboundLocalError"
    /\ pc' = "failed"
    /\ UNCHANGED <<resumeVars, workerVars, syncVars, lateVars, stream, attempt, jobs_completed, created_jobs, job_id, polls, completed,
                   bidx, downloaded, bookmark, persisted, quotaRaised, allParsed, attempts,
                   failedAttempts, reqVars, closeVars>>

\* Bulk.query, last statement, once _bulk_query is exhausted; do_sync then goes on to
\* the next target with a new Bulk instance
QueryDone ==
    /\ pc = "process"
    /\ bidx > Len(completed)
    /\ jobs_completed' = jobs_completed + 1
    /\ persisted' = bookmark
    /\ IF stream < MaxStreams
         THEN /\ stream' = stream + 1
              /\ pc' = "query"
              /\ attempt' = 1
              /\ created_jobs' = <<>>
              /\ closed_jobs' = <<>>
              /\ close_sent' = <<>>
              /\ close_calls' = <<>>
              /\ job_id' = 0
              /\ completed' = <<>>
              /\ bidx' = 1
              /\ downloaded' = <<>>
              /\ bookmark' = NoBookmark
              /\ attempts' = <<>>
              /\ failedAttempts' = {}
              /\ poll_failed' = {}
         ELSE /\ pc' = "done"
              /\ UNCHANGED <<stream, attempt, created_jobs, closed_jobs, close_sent, close_calls, job_id,
                             completed, bidx, downloaded, bookmark, attempts, failedAttempts,
                             poll_failed>>
    /\ UNCHANGED <<resumeVars, workerVars, syncVars, callVars, chunkVars, runVars, msgs, remote, snapshot,
                   exc, polls, quotaRaised, allParsed, reqVars>>

(***************************************************************************)
(* Times, and the values of the sync part before a sync has started        *)
(***************************************************************************)
\* timedelta.days: whole days of a duration
HoursPerDay == 24
MAX_RETRIES == 4
\* backoff.on_exception(..., max_tries=10)
max_tries == 10
TenDays == 10 * HoursPerDay
\* None
NoValue == -1
\* singer_utils.now() of the first run, and the clock of each later run
SyncStart == 400
RunGap == 20
\* config start_date
default_start_date == 0
\* the width of window above which the simulated endpoint times out
OneHour == 1
\* records on one page of a paginated result
PageSize == 1
\* processes started for one target (the first, and runs resuming its job)
MaxRuns == 3
\* targets of the catalog, in sync order
NTargets == 3

NoPosition == [JobID |-> 0, BatchIDs |-> <<>>, High |-> NoValue, rk |-> NoValue]

\* the query without WHERE and ORDER BY
Unfiltered == [key |-> "", lo |-> NoValue, hi |-> NoValue, ordered |-> FALSE]

NoBuilt == [n |-> 0, q |-> Unfiltered, start |-> NoValue, order |-> FALSE]

\* query_override=None
NoOverride == ""
\* the q parameter of a request: a literal text, or the query _build_query_string returned
NoQuery == [literal |-> "", built |-> Unfiltered]
NoRequest == [endpoint |-> "none", q |-> NoQuery, validate_json |-> FALSE]

NoResults == [b \in 1..NBatches |-> <<>>]

IdleRun ==
    /\ raw_current = 0
    /\ state_current = 0
    /\ written_current = 0
    /\ starting_stream = 0
    /\ selected = {}
    /\ synced = <<>>
    /\ cause = "none"
    /\ exit_status = "none"

IdleLate ==
    /\ query_override = NoOverride
    /\ engine = "none"
    /\ request = NoRequest
    /\ tries = 0
    /\ remote = [b \in 1..NBatches |-> "Queued"]
    /\ snapshot = NoSnapshot
    /\ poll_failed = {}
    /\ futures = {}
    /\ delivered = <<>>
    /\ results = NoResults
    /\ result_idx = 0
    /\ IdleRun
    /\ msgs = <<>>

IdleSync ==
    /\ api_type = "REST"
    /\ start_time = SyncStart
    /\ filters_tried = <<>>
    /\ sf_pk_chunking = FALSE
    /\ position = NoPosition
    /\ flushed = NoPosition

IdleRest ==
    /\ output = {}
    /\ built = NoBuilt
    /\ query = Unfiltered
    /\ start_date_str = NoValue
    /\ end_date = NoValue
    /\ retries = 0
    /\ todo = {}
    /\ page = <<>>
    /\ timeouts = 0
    /\ endpoint1h = TRUE
    /\ first_start = NoValue
    /\ current_bookmark = NoValue
    /\ job_query = Unfiltered
    /\ batch_iter = <<>>
    /\ runs = 1
    /\ stale = FALSE

\* the variables of each part as construction leaves them
IdleMain ==
    /\ stream = 1
    /\ attempt = 1
    /\ exc = "none"
    /\ jobs_completed = 0
    /\ created_jobs = <<>>
    /\ job_id = 0
    /\ polls = 0
    /\ completed = <<>>
    /\ bidx = 1
    /\ downloaded = <<>>
    /\ quotaRaised = FALSE
    /\ allParsed = TRUE
    /\ attempts = <<>>
    /\ failedAttempts = {}
IdleReq ==
    /\ rest_requests_attempted = 0
    /\ requestAfterQuota = FALSE
    /\ last = NoLast
IdleClose ==
    /\ closed_jobs = <<>>
    /\ close_sent = <<>>
    /\ close_calls = <<>>
IdleResume ==
    /\ iter_ids = <<>>
    /\ rec_pos = 0
    /\ emitted = {}
    /\ fetched = <<>>
    /\ interrupts = 0
    /\ got = {}
IdleWorkers ==
    /\ wpc = [w \in 1..NWorkers |-> "idle"]
    /\ wtmp = [w \in 1..NWorkers |-> 0]
    /\ wcounted = [w \in 1..NWorkers |-> FALSE]

Init ==
    /\ pc = "query"
    /\ bookmark = NoBookmark
    /\ persisted = NoBookmark
    /\ run_start = <<>>
    /\ initial = <<>>
    /\ empty_parts = {}
    /\ IdleMain /\ IdleReq /\ IdleClose /\ IdleResume /\ IdleWorkers /\ IdleSync /\ IdleRest
    /\ IdleLate

Next ==
    \/ CheckBulkQuota
    \/ CreateJob
    \/ AddBatch
    \/ Poll
    \/ CloseChunkedJob
    \/ GetResultList
    \/ GetResult
    \/ FallbackChunked
    \/ InnerExcept
    \/ QueryDone

Spec == Init /\ [][Next]_vars

(***************************************************************************)
(* Bulk._close_job under an arbitrary caller (specification SpecClose)     *)
(***************************************************************************)
InitClose ==
    /\ pc = "caller"
    /\ bookmark = NoBookmark
    /\ persisted = NoBookmark
    /\ run_start = <<>>
    /\ initial = <<>>
    /\ empty_parts = {}
    /\ IdleMain /\ IdleReq /\ IdleClose /\ IdleResume /\ IdleWorkers /\ IdleSync /\ IdleRest
    /\ IdleLate

\* one call of _close_job, with any job id, answered in any way
CallCloseJob ==
    /\ pc = "caller"
    /\ Len(close_calls) < MaxCloseCalls
    /\ \E j \in 1..MaxJobs, resp \in Responses : _close_job(j, resp)
    /\ UNCHANGED <<mainVars, resumeVars, workerVars, syncVars, lateVars>>

NextClose == CallCloseJob

SpecClose == InitClose /\ [][NextClose]_vars

(***************************************************************************)
(* Worker threads of run_concurrently calling _make_request on one         *)
(* Salesforce instance (specification SpecWorkers).  The statement         *)
(* self.rest_requests_attempted += 1 is a load and a store with no lock:   *)
(* the interpreter may switch threads between them.                        *)
(***************************************************************************)
InitWorkers ==
    /\ pc = "workers"
    /\ bookmark = NoBookmark
    /\ persisted = NoBookmark
    /\ run_start = <<>>
    /\ initial = <<>>
    /\ empty_parts = {}
    /\ IdleMain /\ IdleReq /\ IdleClose /\ IdleResume /\ IdleWorkers /\ IdleSync /\ IdleRest
    /\ IdleLate

\* lines 284-299: the request is sent and answered; only a response with a quota header is counted
WSend(w) ==
    /\ pc = "workers"
    /\ wpc[w] = "idle"
    /\ \E resp \in AllResponses :
         /\ wcounted' = [wcounted EXCEPT ![w] = Counted(resp)]
         /\ wpc' = [wpc EXCEPT ![w] = IF Counted(resp) THEN "load" ELSE "done"]
    /\ UNCHANGED <<wtmp, mainVars, reqVars, closeVars, resumeVars, syncVars, lateVars>>

\* line 300, first half: read self.rest_requests_attempted
WLoad(w) ==
    /\ wpc[w] = "load"
    /\ wtmp' = [wtmp EXCEPT ![w] = rest_requests_attempted]
    /\ wpc' = [wpc EXCEPT ![w] = "store"]
    /\ UNCHANGED <<wcounted, mainVars, reqVars, closeVars, resumeVars, syncVars, lateVars>>

\* line 300, second half: write the value read, plus one
WStore(w) ==
    /\ wpc[w] = "store"
    /\ rest_requests_attempted' = wtmp[w] + 1
    /\ wpc' = [wpc EXCEPT ![w] = "check"]
    /\ UNCHANGED <<wtmp, wcounted, requestAfterQuota, last, mainVars, closeVars, resumeVars, syncVars, lateVars>>

\* line 301: check_rest_quota_usage on the response's header and the counter as it is now
WCheck(w) ==
    /\ wpc[w] = "check"
    /\ \E h \in Headers \ {NoHeader} :
         wpc' = [wpc EXCEPT ![w] =
                    IF check_rest_quota_usage(h, rest_requests_attempted) = "none"
                      THEN "done" ELSE "raised"]
    /\ UNCHANGED <<wtmp, wcounted, mainVars, reqVars, closeVars, resumeVars, syncVars, lateVars>>

NextWorkers == \E w \in 1..NWorkers : WSend(w) \/ WLoad(w) \/ WStore(w) \/ WCheck(w)

SpecWorkers == InitWorkers /\ [][NextWorkers]_vars

(***************************************************************************)
(* resume_syncing_bulk_query, runs that die and later runs that resume     *)
(* from the last state written (specification SpecResume)                  *)
(***************************************************************************)
Range(s) == {s[i] : i \in 1..Len(s)}

\* the state a resuming run is started from: a JobID and the partitions still pending
InitResume ==
    /\ pc = "job_exists"
    /\ \E S \in SUBSET (1..NBatches) :
         /\ bookmark = [JobID |-> 1, BatchIDs |-> SetToSeq(S)]
         /\ persisted = bookmark
         /\ run_start = bookmark.BatchIDs
         /\ initial = bookmark.BatchIDs
         /\ empty_parts \in SUBSET S
    /\ IdleMain /\ IdleReq /\ IdleClose /\ IdleResume /\ IdleWorkers /\ IdleSync /\ IdleRest
    /\ IdleLate

\* an exception leaves resume_syncing_bulk_query, do_sync and the process
Die(e) ==
    /\ pc' = "dead"
    /\ exc' = e

mainRest == <<stream, attempt, jobs_completed, created_jobs, job_id, polls, completed,
              downloaded, quotaRaised, allParsed, attempts, failedAttempts>>

\* sync.py line 67, Bulk.job_exists: InvalidJob makes it return False, any other error propagates
ResumeJobExists ==
    /\ pc = "job_exists"
    /\ \E resp \in Responses, invalid_job \in BOOLEAN :
         /\ _make_request(resp)
         /\ IF Raised(resp) = "none"
              THEN /\ invalid_job = FALSE
                   /\ iter_ids' = bookmark.BatchIDs
                   /\ bidx' = 1
                   /\ pc' = "next"
                   /\ UNCHANGED exc
              ELSE IF Raised(resp) = "HTTPError" /\ invalid_job
                THEN /\ pc' = "stale"
                     /\ UNCHANGED <<exc, iter_ids, bidx>>
                ELSE /\ invalid_job = FALSE
                     /\ Die(Raised(resp))
                     /\ UNCHANGED <<iter_ids, bidx>>
    /\ UNCHANGED <<mainRest, bookmark, persisted, closeVars, workerVars, syncVars, lateVars,
                   rec_pos, emitted, fetched, run_start, initial, interrupts,
                   empty_parts, got>>

\* the rows of a partition's result (a result, once Completed, does not change)
NRecs(b) == IF b \in empty_parts THEN 0 ELSE RecordsPerBatch

\* get_batch_results for the next id of batch_ids[:]: the request for the result list
ResumeGetResultList ==
    /\ pc = "next"
    /\ bidx <= Len(iter_ids)
    /\ fetched' = Append(fetched, iter_ids[bidx])
    /\ \E resp \in Responses :
         /\ _make_request(resp)
         /\ IF Raised(resp) = "none"
              THEN pc' = "result" /\ UNCHANGED exc
              ELSE Die(Raised(resp))
    /\ UNCHANGED <<mainRest, bidx, bookmark, persisted, closeVars, workerVars, syncVars, lateVars,
                   iter_ids, rec_pos, emitted, run_start, initial, interrupts,
                   empty_parts, got>>

\* get_batch_results: the request for the result's CSV
ResumeGetResult ==
    /\ pc = "result"
    /\ \E resp \in Responses :
         /\ _make_request(resp)
         /\ IF Raised(resp) = "none"
              THEN /\ pc' = "emit"
                   /\ rec_pos' = 0
                   /\ got' = got \cup {iter_ids[bidx]}
                   /\ UNCHANGED exc
              ELSE Die(Raised(resp)) /\ UNCHANGED <<rec_pos, got>>
    /\ UNCHANGED <<mainRest, bidx, bookmark, persisted, closeVars, workerVars, syncVars, lateVars,
                   iter_ids, emitted, fetched, run_start, initial, interrupts, empty_parts>>

\* lines 74-84: the next row of the CSV is written to the output as a record
ResumeEmit ==
    /\ pc = "emit"
    /\ rec_pos < NRecs(iter_ids[bidx])
    /\ emitted' = emitted \cup {<<iter_ids[bidx], rec_pos + 1>>}
    /\ rec_pos' = rec_pos + 1
    /\ UNCHANGED <<pc, exc, mainRest, bidx, bookmark, persisted, reqVars, closeVars,
                   workerVars, syncVars, lateVars, iter_ids, fetched, run_start, initial, interrupts,
                   empty_parts, got>>

\* mutant: the partition is removed but the state is not written
ResumePartitionDoneNoFlush ==
    /\ pc = "emit"
    /\ rec_pos = NRecs(iter_ids[bidx])
    /\ bookmark' = [bookmark EXCEPT !.BatchIDs = RemoveFirst(@, iter_ids[bidx])]
    /\ bidx' = bidx + 1
    /\ pc' = "next"
    /\ UNCHANGED <<exc, mainRest, persisted, reqVars, closeVars, workerVars, syncVars, lateVars, iter_ids,
                   rec_pos, emitted, fetched, run_start, initial, interrupts, empty_parts, got>>

\* lines 91-98: the partition's rows are exhausted: batch_ids.remove(batch_id), write_state
ResumePartitionDone ==
    /\ pc = "emit"
    /\ rec_pos = NRecs(iter_ids[bidx])
    /\ bookmark' = [bookmark EXCEPT !.BatchIDs = RemoveFirst(@, iter_ids[bidx])]
    /\ persisted' = bookmark'
    /\ bidx' = bidx + 1
    /\ pc' = "next"
    /\ UNCHANGED <<exc, mainRest, reqVars, closeVars, workerVars, syncVars, lateVars, iter_ids,
                   rec_pos, emitted, fetched, run_start, initial, interrupts, empty_parts, got>>

\* line 100: batch_ids[:] is exhausted
ResumeReturn ==
    /\ pc = "next"
    /\ bidx > Len(iter_ids)
    /\ pc' = "returned"
    /\ UNCHANGED <<exc, mainRest, bidx, bookmark, persisted, reqVars, closeVars, workerVars, syncVars, lateVars,
                   resumeVars>>

\* do_sync lines 610-621: the job position is popped and the state written
DoSyncClearJob ==
    /\ pc \in {"returned", "stale"}
    /\ bookmark' = NoBookmark
    /\ persisted' = NoBookmark
    /\ pc' = "synced"
    /\ UNCHANGED <<exc, mainRest, bidx, reqVars, closeVars, workerVars, syncVars, lateVars, resumeVars>>

\* the process is killed
Interrupt ==
    /\ pc \in {"job_exists", "next", "result", "emit", "returned", "stale"}
    /\ pc' = "dead"
    /\ UNCHANGED <<exc, mainRest, bidx, bookmark, persisted, reqVars, closeVars, workerVars, syncVars, lateVars,
                   resumeVars>>

\* a new process loads the last state written; do_sync finds its JobID and resumes
Restart ==
    /\ pc = "dead"
    /\ interrupts < MaxInterrupts
    /\ persisted.JobID # 0
    /\ interrupts' = interrupts + 1
    /\ bookmark' = persisted
    /\ run_start' = persisted.BatchIDs
    /\ fetched' = <<>>
    /\ iter_ids' = <<>>
    /\ rec_pos' = 0
    /\ bidx' = 1
    /\ exc' = "none"
    /\ rest_requests_attempted' = 0
    /\ requestAfterQuota' = FALSE
    /\ last' = NoLast
    /\ pc' = "job_exists"
    /\ UNCHANGED <<mainRest, persisted, closeVars, workerVars, syncVars, lateVars, emitted, initial,
                   empty_parts, got>>

NextResume ==
    \/ ResumeJobExists
    \/ ResumeGetResultList
    \/ ResumeGetResult
    \/ ResumeEmit
    \/ ResumePartitionDone
    \/ ResumeReturn
    \/ DoSyncClearJob
    \/ Interrupt
    \/ Restart

SpecResume == InitResume /\ [][NextResume]_vars

(***************************************************************************)
(* do_sync, sync_records and the engines feeding them, for one target with *)
(* a replication key (specification SpecSync).  Timestamps are counted in  *)
(* hours.  The quota accounting of the requests made here is the subject   *)
(* of Spec and is left out.                                                *)
(***************************************************************************)
\* the target's replication key; discovery writes it as the only valid-replication-keys entry
replication_key == "SystemModstamp"
valid_replication_keys == <<replication_key>>

\* the remote table of the target: the replication value of each record; a chunked job
\* puts record r into partition r
Table == <<SyncStart - 120, SyncStart - 210, SyncStart + 10>>
Records == 1..Len(Table)

\* Salesforce.get_start_date: the replication-key bookmark or the configured start date
get_start_date(pos) == IF pos.rk # NoValue THEN pos.rk ELSE default_start_date

\* mutant: the replication key filters every query
always_valid_filtering_replication_key(tried) ==
    [key |-> replication_key, tried |-> Append(tried, replication_key)]

\* Salesforce.get_valid_filtering_replication_key with filtering_can_be_done_with: a key
\* filters one query per Salesforce instance, then is in filters_tried
get_valid_filtering_replication_key(tried) ==
    IF ~InList(replication_key, tried)
      THEN [key |-> replication_key, tried |-> Append(tried, replication_key)]
      ELSE LET c == {i \in 1..Len(valid_replication_keys) :
                        ~InList(valid_replication_keys[i], tried)}
           IN  IF c = {} THEN [key |-> "", tried |-> tried]
               ELSE LET i == CHOOSE k \in c : \A m \in c : k <= m
                    IN  [key |-> valid_replication_keys[i],
                         tried |-> Append(tried, valid_replication_keys[i])]

\* Salesforce._build_query_string(catalog_entry, start_date, end_date, order_by_clause):
\* the query and filters_tried after the call
_build_query_string(start, end, order_by_clause, tried) ==
    LET g == get_valid_filtering_replication_key(tried)
    IN  [q |-> IF g.key # ""
                 THEN [key |-> g.key, lo |-> start, hi |-> end, ordered |-> order_by_clause]
                 ELSE Unfiltered,
         tried |-> g.tried]

\* one call of _build_query_string on the run's Salesforce instance
Build(start, end, order_by_clause) ==
    LET b == _build_query_string(start, end, order_by_clause, filters_tried)
    IN  /\ filters_tried' = b.tried
        /\ built' = [n |-> built.n + 1, q |-> b.q, start |-> start, order |-> order_by_clause]

\* the records the remote selects for a query: key > lo, and key < hi when an end is given
Result(q) ==
    {r \in Records : q.key = "" \/ (Table[r] > q.lo /\ (q.hi = NoValue \/ Table[r] < q.hi))}

\* the pages the remote may answer with when the records S of the result are left:
\* the next PageSize records, in ascending key order when the query has ORDER BY
NextPages(q, S) ==
    LET k == IF Cardinality(S) < PageSize THEN Cardinality(S) ELSE PageSize
    IN  {p \in [1..k -> S] :
            /\ \A i, j \in 1..k : p[i] = p[j] => i = j
            /\ q.ordered =>
                 /\ \A i, j \in 1..k : i < j => Table[p[i]] <= Table[p[j]]
                 /\ \A i \in 1..k : \A r \in S \ {p[j] : j \in 1..k} : Table[p[i]] <= Table[r]}

\* the window of a query is wider than an hour
Wide(q) ==
    \/ q.key = ""
    \/ (IF q.hi = NoValue THEN start_time ELSE q.hi) - q.lo > OneHour

\* the variables of the other parts
notSyncOrSink == <<mainRest, bidx, bookmark, persisted, reqVars, closeVars, resumeVars, workerVars,
                   callVars, pollVars, chunkVars, runVars>>
notSync == <<notSyncOrSink, msgs>>

\* sync_records lines 508-509: the literal query of an ActivityHistory target
OverrideText == "SELECT (SELECT Id FROM ActivityHistories) FROM Contact"

\* Salesforce.__init__ line 212: api_type.upper() if api_type else None
ApiTypes == {"BULK", "REST", "SOAP", "None"}

\* mutant: the bulk mode alone decides
UsesBulkByMode(api, override) == api = "BULK"

\* Salesforce.query line 452
UsesBulk(api, override) == api = "BULK" /\ override = NoOverride

\* Salesforce.query line 455
UsesRest(api, override) == api = "REST" \/ override # NoOverride

\* sync_records lines 495-522: what the literal query of an ActivityHistory target with
\* a replication key selects: WHERE key > start_date ORDER BY key ASC
OverrideQuery(start) == [key |-> replication_key, lo |-> start, hi |-> NoValue, ordered |-> TRUE]

\* singer.write_message(RecordMessage) and singer.write_state, as lines of the output
RecordMsg(r) == [type |-> "RECORD", r |-> r, pos |-> NoPosition]
StateMsg(pos) == [type |-> "STATE", r |-> 0, pos |-> pos]

\* mutant: no test of the record's value against start_time
SyncRecordUnguarded(r) ==
    /\ output' = output \cup {r}
    /\ IF sf_pk_chunking
         THEN IF Table[r] > current_bookmark
                THEN /\ current_bookmark' = Table[r]
                     /\ position' = [position EXCEPT !.High = Table[r]]
                     /\ flushed' = position'
                     /\ msgs' = <<RecordMsg(r), StateMsg(position')>>
                ELSE /\ msgs' = <<RecordMsg(r)>>
                     /\ UNCHANGED <<current_bookmark, position, flushed>>
         ELSE IF TRUE
                THEN /\ position' = [position EXCEPT !.rk = Table[r]]
                     /\ flushed' = position'
                     /\ msgs' = <<RecordMsg(r), StateMsg(position')>>
                     /\ UNCHANGED current_bookmark
                ELSE /\ msgs' = <<RecordMsg(r)>>
                     /\ UNCHANGED <<current_bookmark, position, flushed>>

\* mutant: the state is written before the record
SyncRecordStateFirst(r) ==
    /\ output' = output \cup {r}
    /\ IF sf_pk_chunking
         THEN IF Table[r] <= start_time /\ Table[r] > current_bookmark
                THEN /\ current_bookmark' = Table[r]
                     /\ position' = [position EXCEPT !.High = Table[r]]
                     /\ flushed' = position'
                     /\ msgs' = <<StateMsg(position'), RecordMsg(r)>>
                ELSE /\ msgs' = <<RecordMsg(r)>>
                     /\ UNCHANGED <<current_bookmark, position, flushed>>
         ELSE IF Table[r] <= start_time
                THEN /\ position' = [position EXCEPT !.rk = Table[r]]
                     /\ flushed' = position'
                     /\ msgs' = <<StateMsg(position'), RecordMsg(r)>>
                     /\ UNCHANGED current_bookmark
                ELSE /\ msgs' = <<RecordMsg(r)>>
                     /\ UNCHANGED <<current_bookmark, position, flushed>>

\* sync_records lines 562-590: the record is written to the output, then the bookmark
\* and the state
SyncRecord(r) ==
    /\ output' = output \cup {r}
    /\ IF sf_pk_chunking
         THEN IF Table[r] <= start_time /\ Table[r] > current_bookmark
                THEN /\ current_bookmark' = Table[r]
                     /\ position' = [position EXCEPT !.High = Table[r]]
                     /\ flushed' = position'
                     /\ msgs' = <<RecordMsg(r), StateMsg(position')>>
                ELSE /\ msgs' = <<RecordMsg(r)>>
                     /\ UNCHANGED <<current_bookmark, position, flushed>>
         ELSE IF Table[r] <= start_time
                THEN /\ position' = [position EXCEPT !.rk = Table[r]]
                     /\ flushed' = position'
                     /\ msgs' = <<RecordMsg(r), StateMsg(position')>>
                     /\ UNCHANGED current_bookmark
                ELSE /\ msgs' = <<RecordMsg(r)>>
                     /\ UNCHANGED <<current_bookmark, position, flushed>>

\* do_sync lines 588-598 (no JobID in the state) and sync_records lines 377-416; then
\* Salesforce.query hands the call to one of the engines
SyncRecordsStart ==
    /\ pc = "do_sync"
    /\ position.JobID = 0
    /\ flushed' = position
    /\ current_bookmark' = get_start_date(position)
    /\ position' = IF sf_pk_chunking
                     THEN [position EXCEPT !.rk = get_start_date(position)]
                     ELSE position
    /\ pc' = IF UsesRest(api_type, query_override) THEN "rest_query" ELSE "bulk_query"
    /\ msgs' = <<StateMsg(position)>>
    /\ UNCHANGED <<exc, notSyncOrSink, api_type, start_time, filters_tried, sf_pk_chunking, output, built,
                   query, start_date_str, end_date, retries, todo, page, timeouts, endpoint1h,
                   first_start, job_query, batch_iter, runs, stale>>

\* Rest.query: the first query and the first call of _query_recur (end_date = sync_start)
RestQuery ==
    /\ pc = "rest_query"
    /\ IF query_override = NoOverride
         THEN /\ Build(get_start_date(position), NoValue, TRUE)
              /\ query' = built'.q
         ELSE /\ query' = OverrideQuery(get_start_date(position))
              /\ UNCHANGED <<filters_tried, built>>
    /\ start_date_str' = get_start_date(position)
    /\ first_start' = get_start_date(position)
    /\ end_date' = start_time
    /\ retries' = MAX_RETRIES
    /\ todo' = Result(query')
    /\ page' = <<>>
    /\ pc' = "rest_request"
    /\ UNCHANGED <<exc, notSync, api_type, start_time, sf_pk_chunking, position, flushed, output,
                   timeouts, endpoint1h, current_bookmark, job_query, batch_iter, runs, stale>>

\* _sync_records: the request for the next page is answered with a page
RestPageOk ==
    /\ pc = "rest_request"
    /\ \E p \in NextPages(query, todo) :
         /\ page' = p
         /\ todo' = todo \ {p[i] : i \in 1..Len(p)}
    /\ endpoint1h' = (endpoint1h /\ ~Wide(query))
    /\ pc' = "rest_yield"
    /\ UNCHANGED <<exc, notSync, api_type, start_time, filters_tried, sf_pk_chunking, position,
                   flushed, output, built, query, start_date_str, end_date, retries, timeouts,
                   first_start, current_bookmark, job_query, batch_iter, runs, stale>>

\* _query_recur lines 61-95: the request is answered with an HTTP error whose body is a
\* list with errorCode QUERY_TIMEOUT (Classify: "retry"); the window is halved
\* and _query_recur called with one retry less (line 39 of the call: no retry left)
RestTimeout ==
    /\ pc = "rest_request"
    /\ timeouts' = timeouts + 1
    /\ endpoint1h' = (endpoint1h /\ Wide(query))
    /\ LET half_day_range == (end_date - start_date_str) \div 2
       IN  /\ end_date' = end_date - half_day_range
           /\ IF half_day_range \div HoursPerDay = 0
                THEN /\ pc' = "failed"
                     /\ exc' = "ZeroDayRange"
                     /\ UNCHANGED <<filters_tried, built, query, retries, todo, page>>
                ELSE /\ Build(start_date_str, end_date', TRUE)
                     /\ IF retries - 1 = 0
                          THEN /\ pc' = "failed"
                               /\ exc' = "OutOfRetries"
                               /\ UNCHANGED <<query, retries, todo, page>>
                          ELSE /\ query' = built'.q
                               /\ retries' = retries - 1
                               /\ todo' = Result(query')
                               /\ page' = <<>>
                               /\ UNCHANGED <<pc, exc>>
    /\ UNCHANGED <<notSync, api_type, start_time, sf_pk_chunking, position, flushed, output,
                   start_date_str, first_start, current_bookmark, job_query, batch_iter, runs,
                   stale>>

\* the bodies an HTTP error may come with: a list whose first entry has errorCode
\* QUERY_TIMEOUT or another code, an object, an empty list, a body that is not JSON
ErrorBodies == {"timeout_list", "other_list", "object", "empty_list", "not_json"}

\* _query_recur lines 61-72, the handler of HTTPError: ex.response.json(), then
\* isinstance(response, list) and response[0].get("errorCode") == "QUERY_TIMEOUT";
\* "retry", or the exception that leaves the handler
Classify(body) ==
    IF body = "not_json" THEN "JSONDecodeError"
    ELSE IF body = "empty_list" THEN "IndexError"
    ELSE IF body = "timeout_list" THEN "retry"
    ELSE "HTTPError"

\* _query_recur lines 61-72: the request is answered with an HTTP error that is not
\* classified as QUERY_TIMEOUT
RestHttpError ==
    /\ pc = "rest_request"
    /\ pc' = "failed"
    /\ \E body \in ErrorBodies :
         /\ Classify(body) # "retry"
         /\ exc' = Classify(body)
    /\ endpoint1h' = FALSE
    /\ UNCHANGED <<notSync, api_type, start_time, filters_tried, sf_pk_chunking, position, flushed,
                   output, built, query, start_date_str, end_date, retries, todo, page, timeouts,
                   first_start, current_bookmark, job_query, batch_iter, runs, stale>>

\* the next record of the page reaches the loop of sync_records
RestYield ==
    /\ pc = "rest_yield"
    /\ page # <<>>
    /\ SyncRecord(Head(page))
    /\ page' = Tail(page)
    /\ UNCHANGED <<pc, exc, notSyncOrSink, api_type, start_time, filters_tried, sf_pk_chunking, built,
                   query, start_date_str, end_date, retries, todo, timeouts, endpoint1h,
                   first_start, job_query, batch_iter, runs, stale>>

\* the page is exhausted: the next page (nextRecordsUrl), or, the result being exhausted,
\* the continuation from end_date (lines 51-59), or the end of the generator, after which
\* sync_stream writes the state
RestPageEnd ==
    /\ pc = "rest_yield"
    /\ page = <<>>
    /\ IF todo # {}
         THEN /\ pc' = "rest_request"
              /\ UNCHANGED <<filters_tried, built, query, start_date_str, end_date, todo, flushed,
                             msgs>>
         ELSE IF end_date < start_time
           THEN /\ Build(end_date, NoValue, TRUE)
                /\ query' = built'.q
                /\ start_date_str' = end_date
                /\ end_date' = start_time
                /\ todo' = Result(query')
                /\ pc' = "rest_request"
                /\ UNCHANGED <<flushed, msgs>>
           ELSE /\ flushed' = position
                /\ msgs' = <<StateMsg(position)>>
                /\ pc' = "synced"
                /\ UNCHANGED <<filters_tried, built, query, start_date_str, end_date, todo>>
    /\ UNCHANGED <<exc, notSyncOrSink, api_type, start_time, sf_pk_chunking, position, output, retries,
                   page, timeouts, endpoint1h, first_start, current_bookmark, job_query,
                   batch_iter, runs, stale>>

\* the rows of partition b of the job: its record, when the job's query selects it
Rows(b) == IF b \in Result(job_query) THEN <<b>> ELSE <<>>

\* the batches of a chunked job when its polling ends: the batch that was added is not
\* processed (batch 0), the partitions made of it are completed
JobSnapshot == [b \in 0..Len(Table) |-> IF b = 0 THEN "Not Processed" ELSE "Completed"]

\* Bulk.query succeeds with a chunked attempt (the first, or the fallback after a first
\* _add_batch has built its query): try_bulking_with_pk_chunking lines 118-126
BulkChunked ==
    /\ pc = "bulk_query"
    /\ \E adds \in 1..2 :
         LET first == _build_query_string(get_start_date(position), NoValue, FALSE, filters_tried)
             b == IF adds = 1 THEN first
                  ELSE _build_query_string(get_start_date(position), NoValue, FALSE, first.tried)
         IN  /\ filters_tried' = b.tried
             /\ built' = [n |-> built.n + adds, q |-> b.q,
                          start |-> get_start_date(position), order |-> FALSE]
             /\ job_query' = b.q
    /\ snapshot' = JobSnapshot
    /\ sf_pk_chunking' = TRUE
    /\ position' = [position EXCEPT !.JobID = runs, !.BatchIDs = Summary(snapshot').completed]
    /\ batch_iter' = Summary(snapshot').completed
    /\ pc' = "bulk_next"
    /\ UNCHANGED <<exc, mainRest, bidx, bookmark, persisted, reqVars, closeVars, resumeVars,
                   workerVars, callVars, remote, poll_failed, chunkVars, runVars, msgs, api_type, start_time, flushed, output, query, start_date_str,
                   end_date, retries, todo, page, timeouts, endpoint1h, first_start,
                   current_bookmark, runs, stale>>

\* Bulk.query raises (quota, or both chunked attempts failed): sync_stream re-raises
BulkQueryFails ==
    /\ pc = "bulk_query"
    /\ pc' = "failed"
    /\ exc' = "Exception"
    /\ UNCHANGED <<notSync, syncVars>>

\* process_batch for the next completed partition: get_batch_results
BulkBatch ==
    /\ pc = "bulk_next"
    /\ batch_iter # <<>>
    /\ page' = Rows(Head(batch_iter))
    /\ pc' = "bulk_yield"
    /\ UNCHANGED <<exc, notSync, api_type, start_time, filters_tried, sf_pk_chunking, position,
                   flushed, output, built, query, start_date_str, end_date, retries, todo,
                   timeouts, endpoint1h, first_start, current_bookmark, job_query, batch_iter,
                   runs, stale>>

\* the next row of the partition reaches the loop of sync_records
BulkYield ==
    /\ pc = "bulk_yield"
    /\ page # <<>>
    /\ SyncRecord(Head(page))
    /\ page' = Tail(page)
    /\ UNCHANGED <<pc, exc, notSyncOrSink, api_type, start_time, filters_tried, sf_pk_chunking, built,
                   query, start_date_str, end_date, retries, todo, timeouts, endpoint1h,
                   first_start, job_query, batch_iter, runs, stale>>

\* process_batch lines 178-181: the partition is removed from BatchIDs, the state written
BulkBatchDone ==
    /\ pc = "bulk_yield"
    /\ page = <<>>
    /\ position' = [position EXCEPT !.BatchIDs = RemoveFirst(@, Head(batch_iter))]
    /\ flushed' = position'
    /\ batch_iter' = Tail(batch_iter)
    /\ pc' = "bulk_next"
    /\ msgs' = <<StateMsg(position')>>
    /\ UNCHANGED <<exc, notSyncOrSink, api_type, start_time, filters_tried, sf_pk_chunking, output, built,
                   query, start_date_str, end_date, retries, todo, page, timeouts, endpoint1h,
                   first_start, current_bookmark, job_query, runs, stale>>

\* the generator is exhausted: sync_stream line 108 writes the state
BulkEnd ==
    /\ pc = "bulk_next"
    /\ batch_iter = <<>>
    /\ flushed' = position
    /\ pc' = "synced"
    /\ msgs' = <<StateMsg(position)>>
    /\ UNCHANGED <<exc, notSyncOrSink, api_type, start_time, filters_tried, sf_pk_chunking, position,
                   output, built, query, start_date_str, end_date, retries, todo, page,
                   timeouts, endpoint1h, first_start, current_bookmark, job_query, batch_iter,
                   runs, stale>>

\* do_sync lines 588-603 (a JobID in the state) and resume_syncing_bulk_query lines 55-57
SyncResumeStart ==
    /\ pc = "do_sync"
    /\ position.JobID # 0
    /\ flushed' = position
    /\ current_bookmark' = IF position.High # NoValue THEN position.High
                           ELSE get_start_date(position)
    /\ pc' = "resume_check"
    /\ msgs' = <<StateMsg(position)>>
    /\ UNCHANGED <<exc, notSyncOrSink, api_type, start_time, filters_tried, sf_pk_chunking, position,
                   output, built, query, start_date_str, end_date, retries, todo, page,
                   timeouts, endpoint1h, first_start, job_query, batch_iter, runs, stale>>

\* resume_syncing_bulk_query lines 67-72: job_exists answers True, answers False
\* (InvalidJob), or raises
SyncJobExists ==
    /\ pc = "resume_check"
    /\ \/ /\ batch_iter' = position.BatchIDs
          /\ pc' = "resume_next"
          /\ UNCHANGED <<exc, stale>>
       \/ /\ stale' = TRUE
          /\ pc' = "resume_returned"
          /\ UNCHANGED <<exc, batch_iter>>
       \/ /\ pc' = "failed"
          /\ exc' = "HTTPError"
          /\ UNCHANGED <<batch_iter, stale>>
    /\ UNCHANGED <<notSync, api_type, start_time, filters_tried, sf_pk_chunking, position, flushed,
                   output, built, query, start_date_str, end_date, retries, todo, page,
                   timeouts, endpoint1h, first_start, current_bookmark, job_query, runs>>

\* line 74: get_batch_results for the next id of batch_ids[:]
SyncResumeBatch ==
    /\ pc = "resume_next"
    /\ batch_iter # <<>>
    /\ page' = Rows(Head(batch_iter))
    /\ pc' = "resume_yield"
    /\ UNCHANGED <<exc, notSync, api_type, start_time, filters_tried, sf_pk_chunking, position,
                   flushed, output, built, query, start_date_str, end_date, retries, todo,
                   timeouts, endpoint1h, first_start, current_bookmark, job_query, batch_iter,
                   runs, stale>>

\* lines 75-89: the row is written to the output; current_bookmark follows it
SyncResumeRecord ==
    /\ pc = "resume_yield"
    /\ page # <<>>
    /\ output' = output \cup {Head(page)}
    /\ current_bookmark' =
         IF Table[Head(page)] <= start_time /\ Table[Head(page)] > current_bookmark
           THEN Table[Head(page)] ELSE current_bookmark
    /\ page' = Tail(page)
    /\ msgs' = <<RecordMsg(Head(page))>>
    /\ UNCHANGED <<pc, exc, notSyncOrSink, api_type, start_time, filters_tried, sf_pk_chunking, position,
                   flushed, built, query, start_date_str, end_date, retries, todo, timeouts,
                   endpoint1h, first_start, job_query, batch_iter, runs, stale>>

\* lines 91-98: JobHighestBookmarkSeen written, the partition removed, the state written
SyncResumeBatchDone ==
    /\ pc = "resume_yield"
    /\ page = <<>>
    /\ position' = [position EXCEPT !.High = current_bookmark,
                                    !.BatchIDs = RemoveFirst(@, Head(batch_iter))]
    /\ flushed' = position'
    /\ batch_iter' = Tail(batch_iter)
    /\ pc' = "resume_next"
    /\ msgs' = <<StateMsg(position')>>
    /\ UNCHANGED <<exc, notSyncOrSink, api_type, start_time, filters_tried, sf_pk_chunking, output, built,
                   query, start_date_str, end_date, retries, todo, page, timeouts, endpoint1h,
                   first_start, current_bookmark, job_query, runs, stale>>

\* line 100: batch_ids[:] is exhausted
SyncResumeReturn ==
    /\ pc = "resume_next"
    /\ batch_iter = <<>>
    /\ pc' = "resume_returned"
    /\ UNCHANGED <<exc, notSync, syncVars>>

\* do_sync lines 610-621: JobID, BatchIDs and JobHighestBookmarkSeen are popped and the
\* replication-key bookmark set to JobHighestBookmarkSeen or, without one, to what it was
DoSyncCollapse ==
    /\ pc = "resume_returned"
    /\ position' = [NoPosition EXCEPT !.rk = IF position.High # NoValue THEN position.High
                                            ELSE position.rk]
    /\ flushed' = position'
    /\ pc' = "synced"
    /\ msgs' = <<StateMsg(position')>>
    /\ UNCHANGED <<exc, notSyncOrSink, api_type, start_time, filters_tried, sf_pk_chunking, output, built,
                   query, start_date_str, end_date, retries, todo, page, timeouts, endpoint1h,
                   first_start, current_bookmark, job_query, batch_iter, runs, stale>>

\* the process is killed while it works on a job
Kill ==
    /\ pc \in {"bulk_next", "bulk_yield", "resume_check", "resume_next", "resume_yield",
               "resume_returned"}
    /\ pc' = "dead"
    /\ UNCHANGED <<exc, notSync, syncVars>>

\* a later process: build_state keeps the bookmarks of the last state written; the
\* Salesforce instance is new
NextRun ==
    /\ pc \in {"dead", "synced", "failed"}
    /\ api_type = "BULK"
    /\ flushed.JobID # 0
    /\ runs < MaxRuns
    /\ runs' = runs + 1
    /\ position' = flushed
    /\ start_time' = start_time + RunGap
    /\ filters_tried' = <<>>
    /\ sf_pk_chunking' = FALSE
    /\ current_bookmark' = NoValue
    /\ page' = <<>>
    /\ batch_iter' = <<>>
    /\ stale' = FALSE
    /\ exc' = "none"
    /\ pc' = "do_sync"
    /\ msgs' = <<>>
    /\ UNCHANGED <<notSyncOrSink, api_type, flushed, output, built, query, start_date_str, end_date,
                   retries, todo, timeouts, endpoint1h, first_start, job_query>>

\* a run starts on the target: with or without a bookmark of an earlier run, as the first
\* target of the run or after a target with the same replication key (and, in bulk
\* mode, after a target that was chunked), with the query built from the catalog entry
\* or with the literal query of an ActivityHistory target
InitSync ==
    /\ pc = "do_sync"
    /\ bookmark = NoBookmark
    /\ persisted = NoBookmark
    /\ run_start = <<>>
    /\ initial = <<>>
    /\ empty_parts = {}
    /\ IdleMain /\ IdleReq /\ IdleClose /\ IdleResume /\ IdleWorkers
    /\ api_type \in {"REST", "BULK"}
    /\ query_override \in {NoOverride, OverrideText}
    /\ engine = "none"
    /\ request = NoRequest
    /\ tries = 0
    /\ remote = [b \in 1..NBatches |-> "Queued"]
    /\ snapshot = NoSnapshot
    /\ poll_failed = {}
    /\ futures = {}
    /\ delivered = <<>>
    /\ results = NoResults
    /\ result_idx = 0
    /\ IdleRun
    /\ msgs = <<>>
    /\ start_time = SyncStart
    /\ filters_tried \in {<<>>, <<replication_key>>}
    /\ sf_pk_chunking \in (IF api_type = "BULK" THEN BOOLEAN ELSE {FALSE})
    /\ position \in {[NoPosition EXCEPT !.rk = x] : x \in {NoValue, SyncStart - TenDays}}
    /\ flushed = position
    /\ IdleRest

NextSync ==
    \/ SyncRecordsStart
    \/ RestQuery
    \/ RestPageOk
    \/ RestTimeout
    \/ RestHttpError
    \/ RestYield
    \/ RestPageEnd
    \/ BulkChunked
    \/ BulkQueryFails
    \/ BulkBatch
    \/ BulkYield
    \/ BulkBatchDone
    \/ BulkEnd
    \/ SyncResumeStart
    \/ SyncJobExists
    \/ SyncResumeBatch
    \/ SyncResumeRecord
    \/ SyncResumeBatchDone
    \/ SyncResumeReturn
    \/ DoSyncCollapse
    \/ Kill
    \/ NextRun

SpecSync == InitSync /\ [][NextSync]_vars

(***************************************************************************)
(* Salesforce.query, the engine it hands the call to, and the first        *)
(* request of that engine through _make_request and its backoff decorator  *)
(* (specification SpecCall)                                                *)
(***************************************************************************)

\* responses to a request: an error status may come with a quota header too
CallResponses == Responses \cup {[status |-> "error", hdr |-> h] : h \in Headers}

\* mutant: every exception is retried
RetryableAny(e) == e # "none"

\* the exceptions the decorator retries: (ConnectionError, JSONDecodeError)
Retryable(e) == e \in {"ConnectionError", "JSONDecodeError"}

\* what one execution of the body of _make_request raises for a response: the status
\* error, then the quota check, then resp.json() when validate_json is set
AttemptRaises(resp, body_ok, validate_json) ==
    IF Raised(resp) # "none" THEN Raised(resp)
    ELSE IF validate_json /\ ~body_ok THEN "JSONDecodeError"
    ELSE "none"

InitCall ==
    /\ pc = "sf_query"
    /\ bookmark = NoBookmark
    /\ persisted = NoBookmark
    /\ run_start = <<>>
    /\ initial = <<>>
    /\ empty_parts = {}
    /\ IdleMain /\ IdleReq /\ IdleClose /\ IdleResume /\ IdleWorkers /\ IdleRest
    /\ api_type \in ApiTypes
    /\ start_time = SyncStart
    /\ filters_tried = <<>>
    /\ sf_pk_chunking = FALSE
    /\ position = NoPosition
    /\ flushed = NoPosition
    /\ query_override \in {NoOverride, OverrideText}
    /\ engine = "none"
    /\ request = NoRequest
    /\ tries = 0
    /\ remote = [b \in 1..NBatches |-> "Queued"]
    /\ snapshot = NoSnapshot
    /\ poll_failed = {}
    /\ futures = {}
    /\ delivered = <<>>
    /\ results = NoResults
    /\ result_idx = 0
    /\ IdleRun
    /\ msgs = <<>>

notCall == <<stream, attempt, jobs_completed, created_jobs, job_id, polls, completed, bidx,
             downloaded, bookmark, persisted, quotaRaised, allParsed, attempts, failedAttempts,
             closeVars, resumeVars, workerVars, pollVars, chunkVars, runVars, msgs>>

\* Salesforce.query: Bulk.query (whose first request is the limits call of
\* check_bulk_quota_usage), or Rest.query (whose first request is the query itself,
\* sent with validate_json), or TapSalesforceException
SalesforceQuery ==
    /\ pc = "sf_query"
    /\ IF UsesBulk(api_type, query_override)
         THEN /\ engine' = "Bulk"
              /\ request' = [endpoint |-> "limits", q |-> NoQuery, validate_json |-> FALSE]
              /\ pc' = "request"
              /\ UNCHANGED <<exc, filters_tried, built>>
         ELSE IF UsesRest(api_type, query_override)
           THEN /\ engine' = "Rest"
                /\ IF query_override = NoOverride
                     THEN /\ Build(get_start_date(position), NoValue, TRUE)
                          /\ request' = [endpoint |-> "queryAll",
                                         q |-> [literal |-> "", built |-> built'.q],
                                         validate_json |-> TRUE]
                     ELSE /\ request' = [endpoint |-> "queryAll",
                                         q |-> [literal |-> query_override, built |-> Unfiltered],
                                         validate_json |-> TRUE]
                          /\ UNCHANGED <<filters_tried, built>>
                /\ pc' = "request"
                /\ UNCHANGED exc
           ELSE /\ pc' = "failed"
                /\ exc' = "TapSalesforceException"
                /\ UNCHANGED <<engine, request, filters_tried, built>>
    /\ UNCHANGED <<notCall, reqVars, query_override, tries, api_type, start_time, sf_pk_chunking,
                   position, flushed, output, query, start_date_str, end_date, retries, todo,
                   page, timeouts, endpoint1h, first_start, current_bookmark, job_query,
                   batch_iter, runs, stale>>

\* what the decorator does with the outcome e of the attempt that made the tries = t
AfterAttempt(e, t) ==
    IF e = "none" THEN pc' = "returned" /\ UNCHANGED exc
    ELSE IF Retryable(e) /\ t < max_tries THEN UNCHANGED <<pc, exc>>
    ELSE pc' = "failed" /\ exc' = e

\* one attempt of _make_request: the connection fails
AttemptNoConnection ==
    /\ pc = "request"
    /\ tries' = tries + 1
    /\ requestAfterQuota' = (requestAfterQuota \/ quotaRaised)
    /\ last' = [NoLast EXCEPT !.attempted = rest_requests_attempted,
                              !.raised = "ConnectionError"]
    /\ AfterAttempt("ConnectionError", tries')
    /\ UNCHANGED <<notCall, rest_requests_attempted, query_override, engine, request, syncVars>>

\* one attempt of _make_request: a response arrives
AttemptResponse ==
    /\ pc = "request"
    /\ tries' = tries + 1
    /\ \E resp \in CallResponses, body_ok \in BOOLEAN :
         LET e == AttemptRaises(resp, body_ok, request.validate_json)
         IN  /\ requestAfterQuota' = (requestAfterQuota \/ quotaRaised)
             /\ rest_requests_attempted' = AttemptedAfter(resp)
             /\ last' = [hdr |-> resp.hdr, attempted |-> AttemptedAfter(resp),
                         jobs |-> jobs_completed, remaining |-> -1, raised |-> e]
             /\ AfterAttempt(e, tries')
    /\ UNCHANGED <<notCall, query_override, engine, request, syncVars>>

NextCall ==
    \/ SalesforceQuery
    \/ AttemptNoConnection
    \/ AttemptResponse

SpecCall == InitCall /\ [][NextCall]_vars

(***************************************************************************)
(* The two polling functions of Bulk, each called on a job whose batches   *)
(* the remote works through meanwhile (specification SpecPoll)             *)
(***************************************************************************)
\* the remote takes a batch from Queued to InProgress or, for the batch a chunked job
\* was split from, to Not Processed, and from InProgress to Completed or Failed
RemoteSteps(st) ==
    IF st = "Queued" THEN {"InProgress", "Not Processed"}
    ELSE IF st = "InProgress" THEN {"Completed", "Failed"}
    ELSE {}

\* _poll_on_batch_status line 270: the states that end the loop
BatchDone(st) == st \in {"Completed", "Failed", "Not Processed"}

\* a job has been created and its batch added; one of the two functions is called
InitPoll ==
    /\ pc \in {"poll_chunked", "poll_batch"}
    /\ bookmark = NoBookmark
    /\ persisted = NoBookmark
    /\ run_start = <<>>
    /\ initial = <<>>
    /\ empty_parts = {}
    /\ IdleMain /\ IdleReq /\ IdleClose /\ IdleResume /\ IdleWorkers /\ IdleSync /\ IdleRest
    /\ IdleLate

notPoll == <<stream, attempt, jobs_completed, created_jobs, job_id, bidx, downloaded, bookmark,
             persisted, quotaRaised, allParsed, attempts, failedAttempts, reqVars, closeVars,
             resumeVars, workerVars, syncVars, callVars, chunkVars, runVars, msgs, poll_failed>>

RemoteStep ==
    /\ pc \in {"poll_chunked", "poll_batch"}
    /\ \E b \in 1..NBatches : \E st \in RemoteSteps(remote[b]) :
         remote' = [remote EXCEPT ![b] = st]
    /\ UNCHANGED <<pc, exc, polls, completed, snapshot, notPoll>>

\* _poll_on_pk_chunked_batch_status: one _get_batches call and the test of its snapshot
PollChunked ==
    /\ pc = "poll_chunked"
    /\ snapshot' = remote
    /\ IF StillRunning(snapshot')
         THEN \* sleep, poll again
              /\ polls < MaxPolls
              /\ polls' = polls + 1
              /\ UNCHANGED <<pc, completed>>
         ELSE /\ completed' = Summary(snapshot').completed
              /\ pc' = "chunked_returned"
              /\ UNCHANGED polls
    /\ UNCHANGED <<exc, remote, notPoll>>

\* _poll_on_batch_status: one _get_batch call for the batch and the test of its state
PollBatch ==
    /\ pc = "poll_batch"
    /\ snapshot' = [b \in {bidx} |-> remote[b]]
    /\ IF ~BatchDone(snapshot'[bidx])
         THEN \* sleep, poll again
              /\ polls < MaxPolls
              /\ polls' = polls + 1
              /\ UNCHANGED pc
         ELSE /\ pc' = "batch_returned"
              /\ UNCHANGED polls
    /\ UNCHANGED <<exc, remote, completed, notPoll>>

\* the status request is answered with an error status: _make_request raises
PollRequestFails ==
    /\ pc \in {"poll_chunked", "poll_batch"}
    /\ pc' = "failed"
    /\ exc' = "HTTPError"
    /\ UNCHANGED <<polls, completed, remote, snapshot, notPoll>>

NextPoll ==
    \/ RemoteStep
    \/ PollChunked
    \/ PollBatch
    \/ PollRequestFails

SpecPoll == InitPoll /\ [][NextPoll]_vars

\* the polling loops go on (time.sleep returns and the next status request is sent),
\* and the remote goes on with the partitions that are Queued or InProgress
SpecPollLive ==
    SpecPoll /\ WF_vars(RemoteStep) /\ WF_vars(PollChunked) /\ WF_vars(PollBatch)

(***************************************************************************)
(* try_bulking_with_pk_chunking after the polling returned: the bookmarks, *)
(* the executor, process_batch and get_batch_results, line by line         *)
(* (specification SpecChunked)                                             *)
(***************************************************************************)

\* the CSV files a result request can answer with: no line at all, the header line only,
\* the header and two rows
EmptyFile == <<>>
HeaderOnly == <<"Id">>
TwoRows == <<"Id", "001", "002">>

\* the result lists of a partition: the 'result' entries of the result-list document
ResultLists == {<<>>, <<EmptyFile>>, <<HeaderOnly>>, <<TwoRows>>, <<TwoRows, TwoRows>>,
                <<HeaderOnly, TwoRows>>}

\* mutant: the reader reports the end of the file after its first row
ExhaustedEarly(file, pos) == pos >= Len(HeaderOnly) + 1

\* for line in csv_reader: no line is left after pos lines were read
Exhausted(file, pos) == pos >= Len(file)

\* mutant: the record is put in front of what the caller already got
YieldedInFront(d, rec) == <<rec>> \o d

\* for result in future.result(): yield result
Yielded(d, rec) == Append(d, rec)

\* the partitions handed to executor.submit so far
Submitted == IF pc = "submit" THEN {completed[i] : i \in 1..(bidx - 1)}
             ELSE IF pc = "write_bookmarks" THEN {}
             ELSE Range(completed)

\* the partition whose generator the caller is iterating
CurrentBatch == completed[bidx]

InitChunked ==
    /\ pc = "write_bookmarks"
    /\ stream = 1
    /\ attempt = 1
    /\ exc = "none"
    /\ jobs_completed = 0
    /\ created_jobs = <<DEFAULT_CHUNK_SIZE>>
    /\ job_id = 1
    /\ polls = 0
    /\ \E snap \in [1..NBatches -> {"Completed", "Not Processed"}] :
         /\ remote = snap
         /\ snapshot = snap
         /\ completed = Summary(snap).completed
    /\ bidx = 1
    /\ downloaded = <<>>
    /\ quotaRaised = FALSE
    /\ allParsed = TRUE
    /\ attempts = <<DEFAULT_CHUNK_SIZE>>
    /\ failedAttempts = {}
    /\ bookmark = NoBookmark
    /\ persisted = NoBookmark
    /\ run_start = <<>>
    /\ initial = <<>>
    /\ empty_parts = {}
    /\ IdleReq /\ IdleClose /\ IdleResume /\ IdleWorkers /\ IdleSync /\ IdleRest
    /\ query_override = NoOverride
    /\ engine = "none"
    /\ request = NoRequest
    /\ tries = 0
    /\ poll_failed = {}
    /\ futures = {}
    /\ delivered = <<>>
    /\ results \in [1..NBatches -> ResultLists]
    /\ result_idx = 0
    /\ IdleRun
    /\ msgs = <<>>

notChunked == <<stream, attempt, jobs_completed, created_jobs, job_id, polls, completed,
                downloaded, quotaRaised, allParsed, attempts, failedAttempts, reqVars, closeVars,
                iter_ids, emitted, fetched, run_start, initial, interrupts, empty_parts, got,
                workerVars, syncVars, callVars, pollVars, results, runVars, msgs>>

\* lines 121-126: the job id and a copy of the completed partitions become the bookmarks
WriteBookmarks ==
    /\ pc = "write_bookmarks"
    /\ bookmark' = [JobID |-> job_id, BatchIDs |-> completed]
    /\ pc' = "submit"
    /\ UNCHANGED <<exc, bidx, persisted, rec_pos, futures, delivered, result_idx, notChunked>>

\* lines 130-133: one executor.submit of the list comprehension, in the order of completed
Submit ==
    /\ pc = "submit"
    /\ bidx <= Len(completed)
    /\ bidx' = bidx + 1
    /\ UNCHANGED <<pc, exc, bookmark, persisted, rec_pos, futures, delivered, result_idx,
                   notChunked>>

\* a worker thread runs the submitted call: process_batch is a generator function, so the
\* call creates the generator and returns it as the future's result; no line of the body runs
WorkerCall(b) ==
    /\ b \in Submitted \ futures
    /\ futures' = futures \cup {b}
    /\ UNCHANGED <<pc, exc, bidx, bookmark, persisted, rec_pos, delivered, result_idx,
                   notChunked>>

\* line 136: the list is built and the loop over the futures starts
ConsumeStart ==
    /\ pc = "submit"
    /\ bidx > Len(completed)
    /\ bidx' = 1
    /\ pc' = "result"
    /\ UNCHANGED <<exc, bookmark, persisted, rec_pos, futures, delivered, result_idx, notChunked>>

\* line 137: future.result() waits for the worker and returns the generator; the first
\* next() runs lines 322-334 in the caller's thread: the result list is requested; a status
\* error of the request propagates, a list without 'result' entries is not subscriptable
FutureResult ==
    /\ pc = "result"
    /\ bidx <= Len(completed)
    /\ CurrentBatch \in futures
    /\ \E ok \in BOOLEAN :
         IF ~ok THEN pc' = "failed" /\ exc' = "HTTPError" /\ UNCHANGED result_idx
         ELSE IF results[CurrentBatch] = <<>>
              THEN pc' = "failed" /\ exc' = "TypeError" /\ UNCHANGED result_idx
              ELSE pc' = "csv" /\ result_idx' = 1 /\ UNCHANGED exc
    /\ UNCHANGED <<bidx, bookmark, persisted, rec_pos, futures, delivered, notChunked>>

\* lines 337-366: the file is streamed to a temporary file, a RequestException becomes
\* TapSalesforceException; the header line is read, a file without any line raises
FetchCsv ==
    /\ pc = "csv"
    /\ \E ok \in BOOLEAN :
         IF ~ok \/ results[CurrentBatch][result_idx] = EmptyFile
         THEN pc' = "failed" /\ exc' = "TapSalesforceException" /\ UNCHANGED rec_pos
         ELSE pc' = "lines" /\ rec_pos' = Len(HeaderOnly) /\ UNCHANGED exc
    /\ UNCHANGED <<bidx, bookmark, persisted, futures, delivered, result_idx, notChunked>>

\* lines 369-371, 174-175, 137-138: the next row travels up to the caller; sync_records
\* (sync.py 562-580) writes it and, when it raises JobHighestBookmarkSeen, writes the state
YieldLine ==
    /\ pc = "lines"
    /\ ~Exhausted(results[CurrentBatch][result_idx], rec_pos)
    /\ rec_pos' = rec_pos + 1
    /\ delivered' = Yielded(delivered, <<CurrentBatch, result_idx, rec_pos + 1>>)
    /\ \E raised \in BOOLEAN : persisted' = IF raised THEN bookmark ELSE persisted
    /\ UNCHANGED <<pc, exc, bidx, bookmark, futures, result_idx, notChunked>>

\* line 335: the file is exhausted: the next result of the list, or the end of the loop
NextResult ==
    /\ pc = "lines"
    /\ Exhausted(results[CurrentBatch][result_idx], rec_pos)
    /\ IF result_idx < Len(results[CurrentBatch])
       THEN pc' = "csv" /\ result_idx' = result_idx + 1
       ELSE pc' = "remove" /\ UNCHANGED result_idx
    /\ UNCHANGED <<exc, bidx, bookmark, persisted, rec_pos, futures, delivered, notChunked>>

\* line 178: state[...]["BatchIDs"].remove(batch_id)
RemoveBatch ==
    /\ pc = "remove"
    /\ bookmark' = [bookmark EXCEPT !.BatchIDs = RemoveFirst(@, CurrentBatch)]
    /\ pc' = "flush"
    /\ UNCHANGED <<exc, bidx, persisted, rec_pos, futures, delivered, result_idx, notChunked>>

\* line 181: singer.write_state(state); the generator ends, the loop takes the next future
FlushState ==
    /\ pc = "flush"
    /\ persisted' = bookmark
    /\ bidx' = bidx + 1
    /\ pc' = "result"
    /\ UNCHANGED <<exc, bookmark, rec_pos, futures, delivered, result_idx, notChunked>>

\* lines 136-138: no future is left, the with block ends and the generator returns
ChunkedReturn ==
    /\ pc = "result"
    /\ bidx > Len(completed)
    /\ pc' = "returned"
    /\ UNCHANGED <<exc, bidx, bookmark, persisted, rec_pos, futures, delivered, result_idx,
                   notChunked>>

NextChunked ==
    \/ WriteBookmarks
    \/ Submit
    \/ \E b \in 1..NBatches : WorkerCall(b)
    \/ ConsumeStart
    \/ FutureResult
    \/ FetchCsv
    \/ YieldLine
    \/ NextResult
    \/ RemoveBatch
    \/ FlushState
    \/ ChunkedReturn

SpecChunked == InitChunked /\ [][NextChunked]_vars

(***************************************************************************)
(* main, main_impl and the loop of do_sync over the targets of the         *)
(* catalog, with current_stream (specification SpecMain).  A target is a   *)
(* number, in sync order; 0 stands for no current_stream, or None.         *)
(***************************************************************************)

\* build_state (lines 56-91): the state do_sync receives holds bookmarks only; no line
\* copies current_stream from the state file
BuildStateCurrent(raw) == 0

\* what a target's sync may raise
SyncExceptions == {"QuotaExceeded", "TapSalesforceException", "HTTPError", "IndexError"}

\* sync_stream lines 109-114: a RequestException and any other exception are raised
\* again as Exception
SyncStreamRaises(e) == "Exception"

\* main lines 753-764: TapSalesforceQuotaExceededException exits with 2,
\* TapSalesforceException with 1, anything else is raised again
ExitOf(e) ==
    IF e = "QuotaExceeded" THEN "2"
    ELSE IF e = "TapSalesforceException" THEN "1"
    ELSE "raised"

InitMain ==
    /\ pc = "main"
    /\ bookmark = NoBookmark
    /\ persisted = NoBookmark
    /\ run_start = <<>>
    /\ initial = <<>>
    /\ empty_parts = {}
    /\ IdleMain /\ IdleReq /\ IdleClose /\ IdleResume /\ IdleWorkers /\ IdleSync /\ IdleRest
    /\ query_override = NoOverride
    /\ engine = "none"
    /\ request = NoRequest
    /\ tries = 0
    /\ remote = [b \in 1..NBatches |-> "Queued"]
    /\ snapshot = NoSnapshot
    /\ poll_failed = {}
    /\ futures = {}
    /\ delivered = <<>>
    /\ results = NoResults
    /\ result_idx = 0
    /\ msgs = <<>>
    /\ raw_current = 0
    /\ state_current = 0
    /\ written_current = 0
    /\ starting_stream = 0
    /\ selected \in SUBSET (1..NTargets)
    /\ synced = <<>>
    /\ cause = "none"
    /\ exit_status = "none"

notMain == <<attempt, jobs_completed, created_jobs, job_id, polls, completed, bidx, downloaded,
             bookmark, persisted, quotaRaised, allParsed, attempts, failedAttempts, reqVars,
             closeVars, resumeVars, workerVars, api_type, start_time, filters_tried,
             sf_pk_chunking, position, flushed, output, built, query, start_date_str, end_date,
             retries, todo, page, timeouts, endpoint1h, first_start, current_bookmark,
             job_query, batch_iter, stale, callVars, pollVars, chunkVars, msgs>>

\* main_impl lines 680-681 and do_sync lines 546-547
MainImpl ==
    /\ pc = "main"
    /\ state_current' = BuildStateCurrent(raw_current)
    /\ starting_stream' = state_current'
    /\ stream' = 1
    /\ pc' = "loop"
    /\ UNCHANGED <<exc, runs, raw_current, written_current, selected, synced, cause, exit_status,
                   notMain>>

\* do_sync lines 573-583: a target that is not selected, or that comes before
\* starting_stream, is skipped
SkipTarget ==
    /\ pc = "loop"
    /\ stream <= NTargets
    /\ stream \notin selected \/ starting_stream \notin {0, stream}
    /\ stream' = stream + 1
    /\ UNCHANGED <<pc, exc, runs, runVars, notMain>>

\* do_sync lines 577-587: the target is taken up, current_stream set and the state written
TargetStart ==
    /\ pc = "loop"
    /\ stream <= NTargets
    /\ stream \in selected
    /\ starting_stream \in {0, stream}
    /\ starting_stream' = 0
    /\ state_current' = stream
    /\ written_current' = stream
    /\ synced' = Append(synced, stream)
    /\ pc' = "sync"
    /\ UNCHANGED <<stream, exc, runs, raw_current, selected, cause, exit_status, notMain>>

\* do_sync lines 596-643: the target's sync returns (sync_stream, or
\* resume_syncing_bulk_query for a target with a JobID), the loop goes on
TargetSynced ==
    /\ pc = "sync"
    /\ stream' = stream + 1
    /\ pc' = "loop"
    /\ UNCHANGED <<exc, runs, runVars, notMain>>

\* the target's sync raises: inside sync_records, through sync_stream, or inside
\* resume_syncing_bulk_query, which do_sync calls itself; the exception leaves do_sync
\* and main_impl
TargetRaises ==
    /\ pc = "sync"
    /\ \E e \in SyncExceptions, resumed \in BOOLEAN :
         /\ cause' = e
         /\ exc' = IF resumed THEN e ELSE SyncStreamRaises(e)
    /\ pc' = "raised"
    /\ UNCHANGED <<stream, runs, raw_current, state_current, written_current, starting_stream,
                   selected, synced, exit_status, notMain>>

\* main lines 753-764: the handlers
MainHandler ==
    /\ pc = "raised"
    /\ exit_status' = ExitOf(exc)
    /\ pc' = "exited"
    /\ UNCHANGED <<stream, exc, runs, raw_current, state_current, written_current,
                   starting_stream, selected, synced, cause, notMain>>

\* do_sync lines 645-647: the loop is done, current_stream is set to None and written
DoSyncEnd ==
    /\ pc = "loop"
    /\ stream > NTargets
    /\ state_current' = 0
    /\ written_current' = 0
    /\ exit_status' = "0"
    /\ pc' = "exited"
    /\ UNCHANGED <<stream, exc, runs, raw_current, starting_stream, selected, synced, cause,
                   notMain>>

\* the process is killed while it syncs a target
KillMain ==
    /\ pc = "sync"
    /\ pc' = "dead"
    /\ UNCHANGED <<stream, exc, runs, runVars, notMain>>

\* the next process is started with the last state written
NextMain ==
    /\ pc \in {"dead", "exited"}
    /\ runs < MaxRuns
    /\ runs' = runs + 1
    /\ raw_current' = written_current
    /\ state_current' = 0
    /\ starting_stream' = 0
    /\ synced' = <<>>
    /\ cause' = "none"
    /\ exit_status' = "none"
    /\ exc' = "none"
    /\ stream' = 1
    /\ pc' = "main"
    /\ UNCHANGED <<written_current, selected, notMain>>

NextOfMain ==
    \/ MainImpl
    \/ SkipTarget
    \/ TargetStart
    \/ TargetSynced
    \/ TargetRaises
    \/ MainHandler
    \/ DoSyncEnd
    \/ KillMain
    \/ NextMain

SpecMain == InitMain /\ [][NextOfMain]_vars

(***************************************************************************)
(* Claims about the sequential bulk run (specification Spec)               *)
(***************************************************************************)
Terminated == pc \in {"failed", "done"}

\* C1: once QuotaExceeded has been raised during a run, the run issues no further
\* request to the remote platform (no retry, no fallback attempt, no continuation).
C1_NoRequestAfterQuota == ~requestAfterQuota

C3_PerRunCeiling ==
    allParsed => rest_requests_attempted <= max_requests_for_run(Allotted) + 1

\* C5: a _bulk_query makes at most two chunked attempts, the first at the default chunk
\* size and, only after the first has failed, exactly one more at the fallback chunk
\* size; once the first has failed and the handler has run, the second was made; no
\* unpartitioned job is created before both.
C5_FallbackOnce ==
    /\ Len(attempts) <= 2
    /\ Len(attempts) >= 1 => attempts[1] = 250000
    /\ Len(attempts) = 2 => (attempts[2] = 2000 /\ 1 \in failedAttempts)
    /\ (1 \in failedAttempts /\ (attempt = 2 \/ Terminated)) =>
          (pc = "create_job" \/ Len(attempts) = 2)
    /\ \A i \in 1..Len(created_jobs) : created_jobs[i] = 0 => Len(attempts) = 2

\* C5 witness: the first attempt failed and the job of the second attempt, created with
\* the fallback chunk size, exists.
C5_Witness ==
    /\ failedAttempts = {1}
    /\ pc = "add_batch"
    /\ created_jobs[job_id] = FALLBACK_CHUNK_SIZE

\* C6: when both chunked attempts have failed, _bulk_query goes on to an unpartitioned
\* job (no chunking header): it does not end in failure without having created one.
C6_UnpartitionedFallback ==
    (failedAttempts = {1, 2} /\ pc = "failed") =>
        \E i \in 1..Len(created_jobs) : created_jobs[i] = 0

\* C7: when _bulk_query has terminated, normally or with a failure, a close request has
\* been issued for every job it created.
C7_NoLeakedJobs ==
    Terminated => \A j \in 1..Len(created_jobs) : InList(j, close_sent)

(***************************************************************************)
(* Claims about _close_job (SpecClose), the worker threads (SpecWorkers)   *)
(* and resumed jobs (SpecResume)                                           *)
(***************************************************************************)
\* C4: when every worker thread has completed its call, rest_requests_attempted is
\* higher by exactly the number of quota-counted calls (no update is lost).
C4_NoLostUpdate ==
    (\A w \in 1..NWorkers : wpc[w] \in {"done", "raised"}) =>
        rest_requests_attempted = Cardinality({w \in 1..NWorkers : wcounted[w]})

\* C8: whatever the sequence of _close_job calls, exactly one close request is sent for
\* each job id the calls name, and none for a call whose id is already in closed_jobs.
C8_IdempotentClose ==
    \A j \in 1..MaxJobs :
        Cardinality({i \in 1..Len(close_sent) : close_sent[i] = j})
            = IF InList(j, close_calls) THEN 1 ELSE 0

\* C8 witness: _close_job has been called twice with the same job id.
C8_Witness ==
    \E i, k \in 1..Len(close_calls) : i < k /\ close_calls[i] = close_calls[k]

RecordsOf(ids) == UNION {{<<b, i>> : i \in 1..NRecs(b)} : b \in Range(ids)}
\* the partition's result was downloaded and every row of it written to the output
FullyEmitted(b) == b \in got /\ \A i \in 1..NRecs(b) : <<b, i>> \in emitted

\* C9: when a resumed run returns, the records emitted over all runs are exactly the
\* records of the partitions pending at first (what an uninterrupted run emits); within
\* one run no partition is fetched twice, only partitions that were in the persisted
\* BatchIDs at the run's start are fetched, and a run that returns has fetched all of them.
C9_Resumability ==
    /\ emitted \subseteq RecordsOf(initial)
    /\ pc = "returned" => emitted = RecordsOf(initial)
    /\ \A i, k \in 1..Len(fetched) : fetched[i] = fetched[k] => i = k
    /\ Range(fetched) \subseteq Range(run_start)
    /\ pc = "returned" => Range(fetched) = Range(run_start)

\* C9 witness: a run that resumed after an earlier run had completed one of two
\* partitions has returned.
C9_Witness ==
    /\ pc = "returned"
    /\ interrupts >= 1
    /\ Len(initial) = 2
    /\ Len(run_start) = 1
    /\ empty_parts = {}

\* C10: while the job position is persisted, the persisted BatchIDs contain every
\* partition whose records have not all been emitted, and at most one partition whose
\* records have all been emitted.
C10_PersistedAfterEveryPartition ==
    persisted.JobID # 0 =>
        /\ \A b \in Range(initial) : ~FullyEmitted(b) => InList(b, persisted.BatchIDs)
        /\ Cardinality({b \in Range(persisted.BatchIDs) : FullyEmitted(b)}) <= 1

\* C10 witness: a run died after a second partition's records were all emitted and
\* before its removal was written: that partition alone is emitted and still listed.
C10_Witness ==
    /\ pc = "dead"
    /\ Len(persisted.BatchIDs) < Len(initial)
    /\ \E b \in Range(persisted.BatchIDs) : FullyEmitted(b)

(***************************************************************************)
(* Claims about positions and queries (specification SpecSync)             *)
(***************************************************************************)
HasJobPosition(pos) == pos.JobID # 0 \/ pos.BatchIDs # <<>> \/ pos.High # NoValue

\* C11: when the stored job is gone, the resuming run raises nothing, fetches no partition
\* result, and do_sync flushes a position without JobID, BatchIDs and
\* JobHighestBookmarkSeen whose replication-key bookmark is what it was before (nothing
\* of the abandoned job is carried over).
C11_StaleJobResume ==
    [][stale' =>
         /\ exc' = "none"
         /\ stale => output' = output
         /\ (pc = "resume_returned" /\ pc' = "synced") =>
               flushed' = [NoPosition EXCEPT !.rk = position.rk]]_vars

\* C12: when the target's sync has ended and its position is flushed, every record not
\* written to the output has a replication value greater than the position the next run
\* starts from.
C12_PositionSafety ==
    pc = "synced" =>
        \A r \in Records : r \notin output => Table[r] > get_start_date(flushed)

\* C13: no flushed position holds a job position (JobID, BatchIDs or
\* JobHighestBookmarkSeen) together with a replication-key bookmark.
C13_MutualExclusion == ~(HasJobPosition(flushed) /\ flushed.rk # NoValue)

\* C14: when a chunked sync has ended with every partition retrieved, the flushed position
\* has no JobID, BatchIDs or JobHighestBookmarkSeen, and its replication-key bookmark is
\* the highest value the job has seen.
C14_CollapseOnCompletion ==
    (api_type = "BULK" /\ pc = "synced" /\ ~stale) =>
        flushed = [NoPosition EXCEPT !.rk = current_bookmark]

\* C15: in a simple sync the flushed replication-key bookmark never decreases from one
\* record to the next.
C15_MonotonicBookmark == [][api_type = "REST" => flushed'.rk >= flushed.rk]_vars

\* C16: no bookmark (replication-key bookmark or JobHighestBookmarkSeen), in memory or
\* flushed, exceeds the start time of the sync that wrote it, and a record whose value
\* lies after the start time is written to the output and leaves the position unchanged.
C16_ClockSkewGuard ==
    [][/\ position'.rk <= start_time' /\ position'.High <= start_time'
       /\ flushed'.rk <= start_time' /\ flushed'.High <= start_time'
       /\ \A r \in output' \ output :
            Table[r] > start_time => (position' = position /\ flushed' = flushed)]_vars

\* C16 witness: a sync has ended after writing a record dated after its start to the output.
C16_Witness ==
    /\ pc = "synced"
    /\ \E r \in output : Table[r] > start_time

\* C17: with a remote that times out exactly on windows wider than an hour, Rest.query
\* over a window of ten days ends without failure, having written every record of the
\* ten days to the output.
C17_BisectionCoverage ==
    (/\ api_type = "REST"
     /\ endpoint1h
     /\ first_start = start_time - TenDays
     /\ pc \in {"synced", "failed"}) =>
        /\ pc = "synced"
        /\ {r \in Records : Table[r] > first_start /\ Table[r] <= start_time} \subseteq output

\* C18: when _query_recur has completed without failure after one or more timeouts, every
\* record with start < value <= sync start has been written to the output, the records
\* whose value is the end of a bisected window included.
C18_NoDataDropped ==
    (api_type = "REST" /\ pc = "synced" /\ timeouts >= 1) =>
        \A r \in Records : (Table[r] > first_start /\ Table[r] <= start_time) => r \in output

\* C18 witness: a query timed out on its first window, later completed, and the record
\* dated at the end of the first bisected window is in the output.
C18_Witness ==
    /\ api_type = "REST"
    /\ pc = "synced"
    /\ timeouts >= 1
    /\ \E r \in output : Table[r] = start_time - (start_time - first_start) \div 2

\* C19: _query_recur handles at most MAX_RETRIES timeouts in all, a retry keeps the start
\* and moves the end of the window strictly earlier, and the zero-window failure is raised
\* only when the halved window would have no length.
C19_RetryTermination ==
    [][/\ timeouts' <= MAX_RETRIES
       /\ (timeouts' > timeouts /\ pc' = "rest_request") =>
             (end_date' < end_date /\ start_date_str' = start_date_str)
       /\ (exc' = "ZeroDayRange" /\ exc # "ZeroDayRange") =>
             end_date' - start_date_str' = 0]_vars

\* C20: every query built has the filter replication_key > start, the start being the one
\* asked for, and ORDER BY replication_key when ordering was asked for.
C20_FilteredOrderedQuery ==
    built.n > 0 =>
        /\ built.q.key = replication_key
        /\ built.q.lo = built.start
        /\ built.order => built.q.ordered

(***************************************************************************)
(* Claims about failures: one target of several, a partition of a job      *)
(* (specification Spec)                                                    *)
(***************************************************************************)
\* C25: in a run over several targets, a failure other than QuotaExceeded while one
\* target is synced ends that target only: the run ends having gone through every
\* selected target
C25_FailureIsolation ==
    (Terminated /\ exc # "QuotaExceeded") => stream = MaxStreams

\* C27: when the polling of a chunked job ends with a Failed partition, the attempt
\* fails with an error, no result of that job is ever downloaded by this Bulk instance,
\* and the job is never written to the position, in memory or flushed, as JobID
C27_PartitionFailure ==
    [][/\ poll_failed' \ poll_failed # {} =>
            /\ pc' = "except"
            /\ exc' = "TapSalesforceException"
            /\ attempt \in failedAttempts'
            /\ UNCHANGED <<downloaded, bookmark, persisted>>
       /\ \A j \in poll_failed' :
            /\ \A i \in 1..Len(downloaded') : downloaded'[i][1] # j
            /\ bookmark'.JobID # j
       /\ persisted' # persisted => persisted'.JobID \notin poll_failed \cup poll_failed']_vars

\* a job failed on polling, and the fallback attempt's job got as far as a download
C27_Witness == poll_failed # {} /\ downloaded # <<>>

(***************************************************************************)
(* Claims about polling (specification SpecPoll)                           *)
(***************************************************************************)
\* C26: _poll_on_pk_chunked_batch_status returns only a summary computed from a snapshot
\* without Queued or InProgress partition, no partition of the job being Queued or
\* InProgress then, and _poll_on_batch_status returns only once the batch was seen
\* Completed, Failed or Not Processed
C26_PollReturns ==
    /\ pc = "chunked_returned" =>
         /\ \A b \in 1..NBatches : snapshot[b] \notin {"Queued", "InProgress"}
         /\ \A b \in 1..NBatches : remote[b] \notin {"Queued", "InProgress"}
         /\ Range(completed) = {b \in 1..NBatches : snapshot[b] = "Completed"}
    /\ pc = "batch_returned" =>
         /\ snapshot[bidx] \in {"Completed", "Failed", "Not Processed"}
         /\ remote[bidx] = snapshot[bidx]

\* the chunked polling has returned after a snapshot that made it sleep
C26_Witness == pc = "chunked_returned" /\ polls >= 1 /\ completed # <<>>

(***************************************************************************)
(* Claims about the engine choice and the transport (specification         *)
(* SpecCall)                                                               *)
(***************************************************************************)
\* C21: Salesforce.query uses the Bulk engine exactly when api_type is BULK and no
\* override is given, the Paginated engine when api_type is REST or an override is
\* given, its first request then carrying the override text as it is, and with any
\* other api_type and no override it raises without a request
C21_EngineChoice ==
    pc # "sf_query" =>
      /\ engine = "Bulk" <=> (api_type = "BULK" /\ query_override = NoOverride)
      /\ (api_type = "REST" \/ query_override # NoOverride) => engine = "Rest"
      /\ (engine = "Rest" /\ query_override # NoOverride) =>
            request.endpoint = "queryAll" /\ request.q.literal = query_override
      /\ (api_type \notin {"BULK", "REST"} /\ query_override = NoOverride) =>
            /\ engine = "none"
            /\ pc = "failed" /\ exc = "TapSalesforceException"
            /\ tries = 0 /\ request = NoRequest

\* bulk mode, an override: the paginated engine has sent the override
C21_Witness ==
    /\ api_type = "BULK" /\ query_override = OverrideText
    /\ engine = "Rest" /\ tries >= 1 /\ request.q.literal = OverrideText

\* C22: one _make_request call makes at most 10 attempts, makes another attempt only
\* after a connection failure or a malformed response body, and when the 10th attempt
\* fails too, its failure reaches the caller
C22_BoundedRetry ==
    [][/\ tries' <= max_tries
       /\ (pc = "request" /\ pc' = "request") =>
            last'.raised \in {"ConnectionError", "JSONDecodeError"}
       /\ (pc = "request" /\ tries' = max_tries /\ last'.raised # "none") =>
            (pc' = "failed" /\ exc' = last'.raised)]_vars

\* the 10th attempt has failed with a malformed body
C22_Witness == pc = "failed" /\ tries = max_tries /\ exc = "JSONDecodeError"

\* C23 as stated: the call that receives an HTTP error status has made exactly one
\* attempt, raises the error and leaves rest_requests_attempted unchanged
C23_HttpErrorOneAttempt ==
    [][(pc = "request" /\ last'.raised = "HTTPError") =>
         /\ tries' = 1
         /\ pc' = "failed" /\ exc' = "HTTPError"
         /\ rest_requests_attempted' = rest_requests_attempted]_vars

\* C23, amended: the attempt that receives an HTTP error status is the last attempt
\* of its call: the error is raised to the caller, and the attempt leaves
\* rest_requests_attempted unchanged
C23_HttpErrorNotRetried ==
    [][(pc = "request" /\ last'.raised = "HTTPError") =>
         /\ tries' = tries + 1
         /\ pc' = "failed" /\ exc' = "HTTPError"
         /\ rest_requests_attempted' = rest_requests_attempted]_vars

\* an HTTP error status has ended a call that had retried before, and counted a response
C23_Witness ==
    pc = "failed" /\ exc = "HTTPError" /\ tries > 1 /\ rest_requests_attempted > 0

(***************************************************************************)
(* Claims about HTTP errors while paging and about the order of the        *)
(* output (specification SpecSync)                                         *)
(***************************************************************************)
\* C24: an HTTP error received while paging that is not a QUERY_TIMEOUT reaches the
\* caller as it is, with no retry and no retry budget used
C24_HttpErrorPropagates ==
    [][(pc = "rest_request" /\ pc' = "failed" /\ exc' \notin {"ZeroDayRange", "OutOfRetries"}) =>
         /\ exc' = "HTTPError"
         /\ UNCHANGED <<retries, timeouts, query, end_date, built>>]_vars

\* C28: in simple mode, whenever the flushed replication-key bookmark takes a new value,
\* the step that flushes it has written the record carrying that value to the output
\* first, and the state after it; the bookmark is never flushed ahead of its record
C28_FlushAfterRecord ==
    [][(api_type = "REST" /\ flushed'.rk # flushed.rk) =>
         \E i \in 1..Len(msgs') :
           /\ msgs'[i] = StateMsg(flushed')
           /\ \E j \in 1..(i-1) :
                /\ msgs'[j].type = "RECORD"
                /\ Table[msgs'[j].r] = flushed'.rk
                /\ msgs'[j].r \in output']_vars

\* a simple sync has written a second record and flushed its value as the bookmark
C28_Witness ==
    /\ api_type = "REST" /\ Cardinality(output) >= 2
    /\ \E r \in output : msgs = <<RecordMsg(r), StateMsg(flushed)>> /\ flushed.rk = Table[r]

(***************************************************************************)
(* Claims about the partitions of a chunked job (specification             *)
(* SpecChunked)                                                            *)
(***************************************************************************)

\* every row of every result file of the partition has reached the caller
AllDelivered(b) ==
    \A k \in 1..Len(results[b]) : \A l \in (Len(HeaderOnly) + 1)..Len(results[b][k]) :
        <<b, k, l>> \in Range(delivered)

\* C29: a partition leaves BatchIDs only after all its rows reached the caller; no state
\* written shows a partition removed whose rows were only partly emitted; and when a row
\* reaches the caller, every removal made so far has been written
C29_AtomicCompletion ==
    /\ [](pc # "write_bookmarks" =>
            /\ \A b \in Range(completed) \ Range(bookmark.BatchIDs) : AllDelivered(b)
            /\ persisted # NoBookmark =>
                 \A b \in Range(completed) \ Range(persisted.BatchIDs) : AllDelivered(b))
    /\ [][delivered' # delivered =>
            \/ bookmark.BatchIDs = completed
            \/ persisted.JobID = job_id /\ persisted.BatchIDs = bookmark.BatchIDs]_vars

\* the first partition was removed and flushed after both its rows, the second one is in progress
C29_Witness ==
    /\ Len(completed) >= 2
    /\ persisted = [JobID |-> job_id, BatchIDs |-> Tail(completed)]
    /\ \E i \in 1..Len(delivered) : delivered[i][1] = completed[2]
    /\ \E i, j \in 1..Len(delivered) : i # j /\ delivered[i][1] = completed[1] /\ delivered[j][1] = completed[1]

\* C30: the rows of a partition reach the caller in the order of the partition's result
\* files and of the lines in each file, whatever rows of other partitions come in between
C30_PartitionOrder ==
    \A i, j \in 1..Len(delivered) :
        (i < j /\ delivered[i][1] = delivered[j][1]) =>
            \/ delivered[i][2] < delivered[j][2]
            \/ delivered[i][2] = delivered[j][2] /\ delivered[i][3] < delivered[j][3]

\* rows of two result files of one partition and rows of a second partition were delivered
C30_Witness ==
    /\ pc = "returned"
    /\ \E i, j \in 1..Len(delivered) : delivered[i][1] # delivered[j][1]
    /\ \E i, j \in 1..Len(delivered) :
         delivered[i][1] = delivered[j][1] /\ delivered[i][2] # delivered[j][2]

(***************************************************************************)
(* Claims about the highest value seen, the retry after a timeout, the     *)
(* literal query and the bookmark of a paginated target (specification     *)
(* SpecSync)                                                               *)
(***************************************************************************)

\* the position's highest value seen, as resume_syncing_bulk_query line 55 reads it
HighestSeen(pos) == IF pos.High # NoValue THEN pos.High ELSE get_start_date(pos)

\* the highest of cur and the value v, values after the sync start left out
SeenAfter(cur, v) == IF v <= start_time /\ v > cur THEN v ELSE cur

\* a record of a chunked or resumed sync is processed
BulkRecordStep == pc \in {"bulk_yield", "resume_yield"} /\ page # <<>> /\ page' = Tail(page)

\* C31 as stated: JobHighestBookmarkSeen never decreases and, after each record processed
\* by a chunked or a resumed sync, is the highest of what it was and the record's value
C31_HighestSeenPerRecord ==
    [][/\ (position.High # NoValue /\ position'.High # NoValue) => position'.High >= position.High
       /\ BulkRecordStep =>
            HighestSeen(position') = SeenAfter(HighestSeen(position), Table[Head(page)])]_vars

\* C31: the highest value tracked by a chunked or resumed sync starts at the position,
\* never decreases and after each record is the highest of what it was and the record's
\* value; JobHighestBookmarkSeen never decreases, equals the tracked value after each
\* record of a chunked sync and after each completed partition of a resumed sync
C31_HighestTracked ==
    [][/\ (position.High # NoValue /\ position'.High # NoValue) => position'.High >= position.High
       /\ (pc = "do_sync" /\ pc' # "do_sync") => current_bookmark' = HighestSeen(position)
       /\ BulkRecordStep =>
            /\ current_bookmark' = SeenAfter(current_bookmark, Table[Head(page)])
            /\ pc = "bulk_yield" => HighestSeen(position') = current_bookmark'
       /\ (pc = "resume_yield" /\ pc' = "resume_next") =>
            position'.High = current_bookmark /\ flushed' = position']_vars

\* a resumed sync has processed a record that raised the tracked value, the partition
\* not being completed yet
C31_Witness ==
    /\ pc = "resume_yield" /\ page = <<>>
    /\ current_bookmark > HighestSeen(position)
    /\ \E r \in output : Table[r] = current_bookmark

\* C35: a record that reaches sync_records from the retry after a QUERY_TIMEOUT was not
\* emitted before the timeout
C35_NoReemission ==
    (pc = "rest_yield" /\ page # <<>> /\ timeouts > 0 /\ start_date_str = first_start)
        => Head(page) \notin output

\* C36: in a call with a literal query no query is built from the catalog entry
C36_OverrideKept == [][query_override # NoOverride => built' = built]_vars

\* C37: a record of a paginated target whose value is not after the sync start becomes
\* the replication-key bookmark, and the state is written
C37_PerRecordBookmark ==
    [][(pc = "rest_yield" /\ page # <<>> /\ page' = Tail(page) /\ Table[Head(page)] <= start_time)
          => (position'.rk = Table[Head(page)] /\ flushed' = position')]_vars

(***************************************************************************)
(* Claims about the partitions downloaded and the closing of the job       *)
(* (specification Spec)                                                    *)
(***************************************************************************)

\* the downloads of the attempt's job
DownloadsOfJob == {i \in 1..Len(downloaded) : downloaded[i][1] = job_id}

\* C32: the partitions of the attempt's job that are downloaded were Completed in the
\* snapshot that ended the polling, none is downloaded twice, and once the attempt has
\* gone through its partitions they are exactly the Completed ones
C32_ResolveCompleted ==
    /\ \A i, j \in DownloadsOfJob : downloaded[i][2] = downloaded[j][2] => i = j
    /\ pc \in {"process", "result"} =>
         /\ \A i \in DownloadsOfJob : snapshot[downloaded[i][2]] = "Completed"
         /\ bidx > Len(completed) =>
              {downloaded[i][2] : i \in DownloadsOfJob}
                 = {b \in 1..NBatches : snapshot[b] = "Completed"}

\* an attempt has downloaded its Completed partition, another one was not processed
C32_Witness ==
    /\ pc = "process" /\ bidx > Len(completed) /\ Len(completed) >= 1
    /\ \E b \in 1..NBatches : snapshot[b] = "Not Processed"
    /\ DownloadsOfJob # {}

\* C33: a result of a job is downloaded, and the job's id written to the position, only
\* after the close request for the job was issued
C33_CloseBeforeFetch ==
    [][/\ downloaded' # downloaded /\ downloaded' # <<>> =>
            InList(downloaded'[Len(downloaded')][1], close_sent)
       /\ (bookmark'.JobID # bookmark.JobID /\ bookmark'.JobID # 0) =>
            InList(bookmark'.JobID, close_sent')
       /\ (persisted'.JobID # persisted.JobID /\ persisted'.JobID # 0) =>
            InList(persisted'.JobID, close_sent)]_vars

\* the job of the fallback attempt was closed and a result of it downloaded
C33_Witness ==
    /\ attempt = 2 /\ InList(job_id, close_sent)
    /\ \E i \in 1..Len(downloaded) : downloaded[i][1] = job_id
    /\ persisted.JobID = job_id

(***************************************************************************)
(* Claims about the end of the polling (specification SpecPollLive)        *)
(***************************************************************************)
\* C34: the polling function returns, or a status request fails; and once no partition
\* is Queued or InProgress (once the batch is Completed, Failed or Not Processed) the
\* polling does not go on forever
C34_PollingReturns ==
    /\ <>(pc \in {"chunked_returned", "batch_returned", "failed"})
    /\ (pc = "poll_chunked" /\ ~StillRunning(remote)) ~> (pc # "poll_chunked")
    /\ (pc = "poll_batch" /\ BatchDone(remote[bidx])) ~> (pc # "poll_batch")

\* the polling of one batch has slept as often as it may and has returned
C34_Witness == pc = "batch_returned" /\ polls = MaxPolls /\ snapshot[bidx] = "Failed"

(***************************************************************************)
(* Claims about the pending partitions in the states written               *)
(* (specification SpecSync)                                                *)
(***************************************************************************)
\* C38: a state written, like the state in memory, has BatchIDs only with a JobID, every
\* id of BatchIDs is a partition that was Completed when the job's polling ended, and
\* while the JobID written stays the same no id comes back or is added
C38_PendingSet ==
    /\ [](/\ flushed.BatchIDs # <<>> => flushed.JobID # 0
          /\ position.BatchIDs # <<>> => position.JobID # 0
          /\ flushed.JobID # 0 =>
               \A b \in Range(flushed.BatchIDs) : snapshot[b] = "Completed"
          /\ position.JobID # 0 =>
               \A b \in Range(position.BatchIDs) : snapshot[b] = "Completed")
    /\ [][(flushed.JobID # 0 /\ flushed'.JobID = flushed.JobID) =>
             Range(flushed'.BatchIDs) \subseteq Range(flushed.BatchIDs)]_vars

\* a resumed run has written the state with one partition left, after a chunked run
\* that had written it with more
C38_Witness ==
    /\ runs >= 2 /\ pc = "resume_next"
    /\ flushed.JobID # 0 /\ Len(flushed.BatchIDs) = 1
    /\ snapshot # NoSnapshot

(***************************************************************************)
(* Claims about the exit of the process and the target a run starts with   *)
(* (specification SpecMain)                                                *)
(***************************************************************************)
\* C39: when QuotaExceeded was raised inside a target's sync, main exits with status 2
C39_QuotaExit == (pc = "exited" /\ cause = "QuotaExceeded") => exit_status = "2"

\* C40: a process started with a state whose current_stream is the selected target S
\* begins with S, and a process that finishes has written current_stream as None
C40_RunResume ==
    /\ (raw_current # 0 /\ raw_current \in selected /\ synced # <<>>) => synced[1] = raw_current
    /\ (pc = "exited" /\ exit_status = "0") => written_current = 0

====
